---- MODULE Spec2Model ----
(***************************************************************************)
(* Storage-engine core of bustub: the B+ tree index (b_plus_tree.cpp and   *)
(* its leaf/internal pages), the index iterator, the buffer pool manager,  *)
(* the LRU-K replacer and the page guards.                                 *)
(***************************************************************************)
EXTENDS Integers, Sequences, FiniteSets, TLC

\* ------------------------------------------------------------------------
\* Bounds of the model
\* ------------------------------------------------------------------------
MaxKey == 4
MaxPages == 7
MaxTimestamp == 5
MaxK == 3
NumFrames == 2
PoolSize == 2
MaxBpmPages == 3
MaxBpmOps == 4
MaxPins == 2
MaxFreeList == 2
BpmK == 2
NumGuards == 3
NumDirtyGuards == 2
NumWriters == 2
NumReaders == 1
MaxCalls == 2
MaxReaderCalls == 1
MaxConcKey == 3
NumCallers == 2
NumIterators == 1
MaxIndex == 3
MaxPinKey == 3
MaxPinPages == 6
MaxWideKey == 5
MaxWidePages == 6

INVALID_PAGE_ID == 0 - 1
HEADER_PAGE_ID == 0

Keys == 1..MaxKey
PageIds == 1..MaxPages
\* RIDs the drivers store: RID(k) for key k, and a second RID for key 2, so that a
\* duplicate insert carries a value different from the stored one
ValuesOf(k) == IF k = 2 THEN {k, k + MaxKey} ELSE {k}
NoValue == 0
LeafMaxSizes == {2, 3}
InternalMaxSizes == {3}

VARIABLES
  pages,              \* page id -> tree page bytes (type, size, max_size, array_, next_page_id_)
  root_page_id,       \* BPlusTreeHeaderPage::root_page_id_
  next_page_id,       \* BufferPoolManager::next_page_id_
  leaf_max_size,      \* BPlusTree::leaf_max_size_
  internal_max_size,  \* BPlusTree::internal_max_size_
  ref,                \* reference map: key -> value, NoValue when absent
  last,               \* outcome of the last call: what the tree returned, what the map returned
  replacer,           \* the LRUKReplacer object
  lru_ref,            \* reference LRU-K policy: frame -> every access since it was last absent, flag
  lru_out,            \* the last call: what Evict returned and the reference selects, the frame of a Remove
  lru_hung,           \* a thread sits in RecordAccess waiting for the latch_ it holds itself
  bpm_impl,           \* which buffer_pool_manager.cpp is linked: "main" or "p1"
  bpm,                \* the BufferPoolManager object, its replacer and the disk
  held,               \* page id -> pins callers hold: successful NewPage/FetchPage less UnpinPage
  shadow,             \* page id -> the bytes of its last modification unpinned as dirty
  evicted,            \* the pages a replacer eviction took out of their frame, until fetched again
  bpm_out,            \* outcome of the last call, where it was not a FetchPage of a resident page
  guards,             \* the guard objects of the caller: slot -> kind, liveness, bpm_, page_, is_dirty_
  latch,              \* frame -> Page::rwlatch_: shared holds, exclusive hold, broken by a bad unlock
  owed,               \* page id -> guards handed out on the page less UnpinPage calls guards made for it
  guard_out,          \* the last guard operation and the page it released
  threads,            \* thread -> the call it is in: operation, key, position, Context, result
  page_latch,          \* tree page id (0 is the header page) -> Page::rwlatch_
  latch_,             \* BufferPoolManager::latch_: the caller thread that holds the mutex, 0 when free
  callers,            \* caller thread -> the BufferPoolManager operation it is in and how far it got
  pin_count,          \* tree page id (0 is the header page) -> Page::pin_count_
  iters               \* the IndexIterator objects of the caller: <<page id of page_, index_>>

treeVars == <<pages, root_page_id, next_page_id, leaf_max_size, internal_max_size, ref, last>>
lruVars == <<replacer, lru_ref, lru_out, lru_hung>>
bpmVars == <<bpm_impl, bpm, held, shadow, evicted, bpm_out>>
guardVars == <<guards, latch, owed, guard_out>>
concVars == <<threads, page_latch>>
mutexVars == <<latch_, callers>>
pinVars == <<pin_count, iters>>
vars == <<treeVars, lruVars, bpmVars, guardVars, concVars, mutexVars, pinVars>>
\* what the actions of one component leave alone
treeOthers == <<lruVars, bpmVars, guardVars, concVars, mutexVars, pinVars>>
lruOthers == <<treeVars, bpmVars, guardVars, concVars, mutexVars, pinVars>>
bpmOthers == <<treeVars, lruVars, guardVars, concVars, mutexVars, pinVars>>
guardOthers == <<treeVars, lruVars, held, shadow, evicted, bpm_out, concVars, mutexVars, pinVars>>
concOthers == <<leaf_max_size, internal_max_size, last, lruVars, bpmVars, guardVars, mutexVars, pinVars>>
mutexOthers == <<treeVars, lruVars, bpmVars, guardVars, concVars, pinVars>>
pinOthers == <<leaf_max_size, internal_max_size, lruVars, bpmVars, guardVars, threads, mutexVars>>

\* ------------------------------------------------------------------------
\* Tree pages (b_plus_tree_page, leaf page, internal page)
\* ------------------------------------------------------------------------
\* A frame handed out by NewPage on a fresh pool holds zero bytes.
ZeroPage == [type |-> "none", size |-> 0, max |-> 0, arr |-> <<>>, next |-> 0]

\* array_[i] of a page, 0-based; a slot never written reads as zero bytes
At(p, i) == IF i >= 0 /\ i < Len(p.arr) THEN p.arr[i + 1] ELSE <<0, 0>>
KeyAt(p, i) == At(p, i)[1]
ValueAt(p, i) == At(p, i)[2]

\* i zero entries: slots of the frame that were never written
RECURSIVE Zeros(_)
Zeros(i) == IF i <= 0 THEN <<>> ELSE Append(Zeros(i - 1), <<0, 0>>)

\* array_[i] = e
SetAt(p, i, e) ==
  LET a == IF Len(p.arr) < i THEN p.arr \o Zeros(i - Len(p.arr)) ELSE p.arr
  IN [p EXCEPT !.arr = SubSeq(a, 1, i) \o <<e>> \o SubSeq(a, i + 2, Len(a))]

GetSize(p) == p.size
GetMaxSize(p) == p.max
\* min_size = ceil(max_size / 2)
GetMinSize(p) == (p.max + 1) \div 2
IncreaseSize(p, d) == [p EXCEPT !.size = p.size + d]
IsLeafPage(p) == p.type = "leaf"

LeafInit(p, max_size) == [p EXCEPT !.type = "leaf", !.max = max_size, !.next = INVALID_PAGE_ID, !.size = 0]
InternalInit(p, max_size) == [p EXCEPT !.type = "internal", !.max = max_size, !.size = 0]

\* while (l < r) { mid = (l + r) >> 1; if Key[mid] < key: l = mid + 1 else r = mid }
RECURSIVE LowerBound(_, _, _, _)
LowerBound(p, l, r, key) ==
  IF l < r
  THEN LET mid == (l + r) \div 2
       IN IF KeyAt(p, mid) < key THEN LowerBound(p, mid + 1, r, key)
                                 ELSE LowerBound(p, l, mid, key)
  ELSE l

\* the same loop with the early "return false" of Insert on an equal key: -1 on that return
RECURSIVE LowerBoundNoDup(_, _, _, _)
LowerBoundNoDup(p, l, r, key) ==
  IF l < r
  THEN LET mid == (l + r) \div 2
       IN IF KeyAt(p, mid) = key THEN 0 - 1
          ELSE IF KeyAt(p, mid) < key THEN LowerBoundNoDup(p, mid + 1, r, key)
                                      ELSE LowerBoundNoDup(p, l, mid, key)
  ELSE l

\* for (i = GetSize() - 1; i > l; i--) array_[i] = array_[i - 1]; array_[l] = e   (size already increased)
ShiftRightInsert(p, l, e) ==
  LET a == IF Len(p.arr) < p.size - 1 THEN p.arr \o Zeros(p.size - 1 - Len(p.arr)) ELSE p.arr
  IN [p EXCEPT !.arr = SubSeq(a, 1, l) \o <<e>> \o SubSeq(a, l + 1, p.size - 1)
                        \o SubSeq(a, p.size + 1, Len(a))]

\* for (i = l; i < GetSize(); ++i) array_[i] = array_[i + 1]   (size already decreased)
ShiftLeftRemove(p, l) ==
  LET a == IF Len(p.arr) < p.size + 1 THEN p.arr \o Zeros(p.size + 1 - Len(p.arr)) ELSE p.arr
  IN [p EXCEPT !.arr = SubSeq(a, 1, l) \o SubSeq(a, l + 2, p.size + 1) \o SubSeq(a, p.size + 1, Len(a))]

\* LeafInsert without the refusal of a key the page holds: the pair goes in beside it
LeafInsertDuplicate(p, key, value) ==
  <<ShiftRightInsert(IncreaseSize(p, 1), LowerBound(p, 0, GetSize(p), key), <<key, value>>), TRUE>>

\* LeafInsert that stores the new value over the old one before it refuses a key the page holds
LeafInsertOverwrites(p, key, value) ==
  IF \E i \in 0..(GetSize(p) - 1) : KeyAt(p, i) = key
  THEN <<SetAt(p, CHOOSE i \in 0..(GetSize(p) - 1) : KeyAt(p, i) = key, <<key, value>>), FALSE>>
  ELSE LeafInsertDuplicate(p, key, value)

\* B_PLUS_TREE_LEAF_PAGE_TYPE::Insert: <<page, inserted>>
LeafInsert(p, key, value) ==
  IF GetSize(p) = 0 THEN <<SetAt(IncreaseSize(p, 1), 0, <<key, value>>), TRUE>>
  ELSE IF KeyAt(p, GetSize(p) - 1) < key
       THEN <<SetAt(IncreaseSize(p, 1), GetSize(p), <<key, value>>), TRUE>>
  ELSE LET l == LowerBoundNoDup(p, 0, GetSize(p) - 1, key)
       IN IF l = 0 - 1 THEN <<p, FALSE>>
          ELSE IF KeyAt(p, l) = key THEN <<p, FALSE>>
          ELSE <<ShiftRightInsert(IncreaseSize(p, 1), l, <<key, value>>), TRUE>>

\* an internal Insert that puts every pair behind the last one
InternalInsertAppends(p, key, value) ==
  <<SetAt(IncreaseSize(p, 1), GetSize(p), <<key, value>>), TRUE>>

\* B_PLUS_TREE_INTERNAL_PAGE_TYPE::Insert: <<page, inserted>>
InternalInsert(p, key, value) ==
  IF GetSize(p) = 0 THEN <<SetAt(IncreaseSize(p, 1), 0, <<key, value>>), TRUE>>
  ELSE IF KeyAt(p, GetSize(p) - 1) < key
       THEN <<SetAt(IncreaseSize(p, 1), GetSize(p), <<key, value>>), TRUE>>
  ELSE LET l == LowerBoundNoDup(p, 0, GetSize(p) - 1, key)
       IN IF l = 0 - 1 THEN <<p, FALSE>>
          ELSE IF KeyAt(p, l) = key THEN <<p, FALSE>>
          ELSE <<ShiftRightInsert(IncreaseSize(p, 1), l, <<key, value>>), TRUE>>

\* B_PLUS_TREE_LEAF_PAGE_TYPE::Remove(key): <<page, removed>>
LeafRemove(p, key) ==
  IF GetSize(p) = 0 THEN <<p, FALSE>>
  ELSE LET r == GetSize(p) - 1
           l == IF KeyAt(p, 0) = key THEN 0
                ELSE IF KeyAt(p, r) = key THEN r
                ELSE LowerBound(p, 0, r, key)
       IN IF KeyAt(p, l) # key THEN <<p, FALSE>>
          ELSE <<ShiftLeftRemove(IncreaseSize(p, 0 - 1), l), TRUE>>

\* an internal Remove that looks for the key among the separators only and leaves
\* the entry at index 0 alone
InternalRemoveSkipsFirst(p, key) ==
  IF GetSize(p) = 0 \/ KeyAt(p, 0) = key THEN <<p, FALSE>>
  ELSE LET l == LowerBound(p, 0, GetSize(p) - 1, key)
       IN IF KeyAt(p, l) # key THEN <<p, FALSE>>
          ELSE <<ShiftLeftRemove(IncreaseSize(p, 0 - 1), l), TRUE>>

\* B_PLUS_TREE_INTERNAL_PAGE_TYPE::Remove(key): <<page, removed>>
InternalRemove(p, key) ==
  IF GetSize(p) = 0 THEN <<p, FALSE>>
  ELSE LET r == GetSize(p) - 1
           l == IF KeyAt(p, 0) = key THEN 0
                ELSE IF KeyAt(p, r) = key THEN r
                ELSE LowerBound(p, 0, r, key)
       IN IF KeyAt(p, l) # key THEN <<p, FALSE>>
          ELSE <<ShiftLeftRemove(IncreaseSize(p, 0 - 1), l), TRUE>>

\* ------------------------------------------------------------------------
\* BPlusTree::DfsInsert / Insert
\* ------------------------------------------------------------------------
\* while (l <= r) { mid = (l + r) >> 1; if key >= Key[mid] { index = mid; l = mid + 1 } else r = mid - 1 }
RECURSIVE ChildIndex(_, _, _, _, _)
ChildIndex(p, l, r, index, key) ==
  IF l <= r
  THEN LET mid == (l + r) \div 2
       IN IF key >= KeyAt(p, mid) THEN ChildIndex(p, mid + 1, r, mid, key)
                                  ELSE ChildIndex(p, l, mid - 1, index, key)
  ELSE index

\* while (leaf_page->GetSize() > bound) { new_page->Insert(last of leaf_page); leaf_page->IncreaseSize(-1) }
RECURSIVE MoveTailLeaf(_, _, _)
MoveTailLeaf(src, dst, bound) ==
  IF GetSize(src) > bound
  THEN LET size == GetSize(src)
       IN MoveTailLeaf(IncreaseSize(src, 0 - 1),
                       LeafInsert(dst, KeyAt(src, size - 1), ValueAt(src, size - 1))[1], bound)
  ELSE <<src, dst>>

RECURSIVE MoveTailInternal(_, _, _)
MoveTailInternal(src, dst, bound) ==
  IF GetSize(src) > bound
  THEN LET size == GetSize(src)
       IN MoveTailInternal(IncreaseSize(src, 0 - 1),
                           InternalInsert(dst, KeyAt(src, size - 1), ValueAt(src, size - 1))[1], bound)
  ELSE <<src, dst>>

\* Outcome of DfsInsert: the page store, the allocator, the return value and the
\* reference parameters splited, new_page_id and pre_key; latched is the set of
\* pages the call write-latched.
DfsInsertLeaf(ps, nxt, lmax, pid, key, value, npi) ==
  LET leaf_page == ps[pid]
      pre_key == KeyAt(leaf_page, 0)
      ins == LeafInsert(leaf_page, key, value)
  IN IF ins[2]
     THEN IF GetSize(ins[1]) # GetMaxSize(ins[1])
          THEN [ps |-> [ps EXCEPT ![pid] = ins[1]], nxt |-> nxt, ok |-> TRUE, splited |-> FALSE,
                new_page_id |-> npi, pre_key |-> pre_key, latched |-> {pid}]
          ELSE LET new_page_id == nxt
                   new0 == [LeafInit(ps[new_page_id], lmax) EXCEPT !.next = ins[1].next]
                   leaf1 == [ins[1] EXCEPT !.next = new_page_id]
                   moved == MoveTailLeaf(leaf1, new0, GetMinSize(leaf1))
               IN [ps |-> [ps EXCEPT ![pid] = moved[1], ![new_page_id] = moved[2]],
                   nxt |-> nxt + 1, ok |-> TRUE, splited |-> TRUE,
                   new_page_id |-> new_page_id, pre_key |-> pre_key, latched |-> {pid, new_page_id}]
     ELSE [ps |-> [ps EXCEPT ![pid] = ins[1]], nxt |-> nxt, ok |-> FALSE, splited |-> FALSE,
           new_page_id |-> npi, pre_key |-> pre_key, latched |-> {pid}]

\* a DfsInsert that splits the internal page as soon as the propagated separator
\* brings its size to max_size
DfsInsertInternalSplitsAtMax(r, lmax, imax, pid, son_page_id, get_pre_key) ==
  LET internal0 == r.ps[pid]
      internal1 == InternalRemove(internal0, r.pre_key)[1]
      k1 == KeyAt(r.ps[son_page_id], 0)
      internal2 == InternalInsert(internal1, k1, son_page_id)[1]
  IN IF ~r.splited
     THEN [r EXCEPT !.ps = [r.ps EXCEPT ![pid] = internal2], !.pre_key = get_pre_key,
                    !.latched = r.latched \cup {pid, son_page_id}]
     ELSE LET internal3 == InternalInsert(internal2, KeyAt(r.ps[r.new_page_id], 0), r.new_page_id)[1]
          IN IF GetSize(internal3) # GetMaxSize(internal3)
             THEN [r EXCEPT !.ps = [r.ps EXCEPT ![pid] = internal3],
                            !.splited = FALSE, !.pre_key = get_pre_key,
                            !.latched = r.latched \cup {pid, son_page_id, r.new_page_id}]
             ELSE LET new_page_id == r.nxt
                      moved == MoveTailInternal(internal3, InternalInit(r.ps[new_page_id], imax),
                                                GetMinSize(internal3))
                  IN [ps |-> [r.ps EXCEPT ![pid] = moved[1], ![new_page_id] = moved[2]],
                      nxt |-> r.nxt + 1, ok |-> TRUE, splited |-> TRUE,
                      new_page_id |-> new_page_id, pre_key |-> get_pre_key,
                      latched |-> r.latched \cup {pid, son_page_id, r.new_page_id, new_page_id}]

\* The part of DfsInsert after the recursive call returned true (lines 264-322).
DfsInsertInternalAfter(r, lmax, imax, pid, son_page_id, get_pre_key) ==
  LET internal0 == r.ps[pid]
      internal1 == InternalRemove(internal0, r.pre_key)[1]
      k1 == KeyAt(r.ps[son_page_id], 0)
      internal2 == InternalInsert(internal1, k1, son_page_id)[1]
  IN IF ~r.splited
     THEN [r EXCEPT !.ps = [r.ps EXCEPT ![pid] = internal2], !.pre_key = get_pre_key,
                    !.latched = r.latched \cup {pid, son_page_id}]
     ELSE LET k == KeyAt(r.ps[r.new_page_id], 0)
              v == r.new_page_id
          IN IF GetSize(internal2) # GetMaxSize(internal2)
             THEN [r EXCEPT !.ps = [r.ps EXCEPT ![pid] = InternalInsert(internal2, k, v)[1]],
                            !.splited = FALSE, !.pre_key = get_pre_key,
                            !.latched = r.latched \cup {pid, son_page_id, r.new_page_id}]
             ELSE LET new_page_id == r.nxt
                      new0 == InternalInit(r.ps[new_page_id], imax)
                      size == GetSize(internal2)
                      first == IF k > KeyAt(internal2, size - 1)
                               THEN <<internal2, InternalInsert(new0, k, v)[1]>>
                               ELSE <<InternalInsert(IncreaseSize(internal2, 0 - 1), k, v)[1],
                                      InternalInsert(new0, KeyAt(internal2, size - 1),
                                                     ValueAt(internal2, size - 1))[1]>>
                      moved == MoveTailInternal(first[1], first[2], GetMinSize(first[1]))
                  IN [ps |-> [r.ps EXCEPT ![pid] = moved[1], ![new_page_id] = moved[2]],
                      nxt |-> r.nxt + 1, ok |-> TRUE, splited |-> TRUE,
                      new_page_id |-> new_page_id, pre_key |-> get_pre_key,
                      latched |-> r.latched \cup {pid, son_page_id, r.new_page_id, new_page_id}]

RECURSIVE DfsInsert(_, _, _, _, _, _, _, _)
DfsInsert(ps, nxt, lmax, imax, pid, key, value, npi) ==
  IF IsLeafPage(ps[pid])
  THEN DfsInsertLeaf(ps, nxt, lmax, pid, key, value, npi)
  ELSE LET internal_page == ps[pid]
           get_pre_key == KeyAt(internal_page, 0)
           index == ChildIndex(internal_page, 1, GetSize(internal_page) - 1, 0, key)
           son_page_id == ValueAt(internal_page, index)
           r == DfsInsert(ps, nxt, lmax, imax, son_page_id, key, value, npi)
       IN IF ~r.ok
          THEN [r EXCEPT !.latched = r.latched \cup {pid}]
          ELSE DfsInsertInternalAfter(r, lmax, imax, pid, son_page_id, get_pre_key)

\* Number of pages an Insert may allocate: one per level and one for a new root.
RECURSIVE Height(_, _)
Height(ps, pid) == IF IsLeafPage(ps[pid]) THEN 1 ELSE 1 + Height(ps, ValueAt(ps[pid], 0))

\* The part of Insert after DfsInsert returned r (lines 345-375)
TreeInsertAfter(r, root, imax) ==
  IF r.ok
  THEN IF ~r.splited
       THEN [ps |-> r.ps, nxt |-> r.nxt, root |-> root, ret |-> TRUE, latched |-> r.latched]
       ELSE LET new_root_page_id == r.nxt
                new_root0 == InternalInit(r.ps[new_root_page_id], imax)
                k1 == KeyAt(r.ps[root], 0)
                new_root1 == InternalInsert(new_root0, k1, root)[1]
                k2 == KeyAt(r.ps[r.new_page_id], 0)
                new_root2 == InternalInsert(new_root1, k2, r.new_page_id)[1]
            IN [ps |-> [r.ps EXCEPT ![new_root_page_id] = new_root2], nxt |-> r.nxt + 1,
                root |-> new_root_page_id, ret |-> TRUE,
                latched |-> r.latched \cup {root, r.new_page_id}]
  ELSE [ps |-> r.ps, nxt |-> r.nxt, root |-> root, ret |-> FALSE, latched |-> r.latched]

\* BPlusTree::Insert: [ps, nxt, root, ret, latched]; DfsInsert is called once
TreeInsert(ps, nxt, root, lmax, imax, key, value) ==
  CHOOSE out \in {TreeInsertAfter(r, root, imax) :
                    r \in {DfsInsert(ps, nxt, lmax, imax, root, key, value, INVALID_PAGE_ID)}} : TRUE

\* ------------------------------------------------------------------------
\* BPlusTree::DfsRemove / Remove
\* ------------------------------------------------------------------------
\* for (auto [k, v] : delete_node) internal_page->Remove(k)
RECURSIVE RemoveAll(_, _, _)
RemoveAll(p, nodes, i) ==
  IF i > Len(nodes) THEN p ELSE RemoveAll(InternalRemove(p, nodes[i][1])[1], nodes, i + 1)

\* for (auto [k, v] : add_node) internal_page->Insert(k, v)
RECURSIVE InsertAll(_, _, _)
InsertAll(p, nodes, i) ==
  IF i > Len(nodes) THEN p ELSE InsertAll(InternalInsert(p, nodes[i][1], nodes[i][2])[1], nodes, i + 1)

\* DfsRemove on a leaf (lines 397-465): [ps, delete_node, add_node, latched]
DfsRemoveLeaf(ps, pid, left, right, key) ==
  LET leaf0 == ps[pid]
      del0 == << <<KeyAt(leaf0, 0), pid>> >>
      leaf1 == LeafRemove(leaf0, key)[1]
  IN IF GetSize(leaf1) >= GetMinSize(leaf1) \/ (left = INVALID_PAGE_ID /\ right = INVALID_PAGE_ID)
     THEN [ps |-> [ps EXCEPT ![pid] = leaf1], delete_node |-> del0,
           add_node |-> << <<KeyAt(leaf1, 0), pid>> >>, latched |-> {pid}]
     ELSE IF left # INVALID_PAGE_ID /\ GetSize(ps[left]) - 1 >= GetMinSize(ps[left])
     THEN LET l0 == ps[left]
              size == GetSize(l0)
              leaf2 == LeafInsert(leaf1, KeyAt(l0, size - 1), ValueAt(l0, size - 1))[1]
          IN [ps |-> [ps EXCEPT ![pid] = leaf2, ![left] = IncreaseSize(l0, 0 - 1)],
              delete_node |-> del0, add_node |-> << <<KeyAt(leaf2, 0), pid>> >>,
              latched |-> {pid, left}]
     ELSE IF right # INVALID_PAGE_ID /\ GetSize(ps[right]) - 1 >= GetMinSize(ps[right])
     THEN LET r0 == ps[right]
              leaf2 == LeafInsert(leaf1, KeyAt(r0, 0), ValueAt(r0, 0))[1]
              r1 == LeafRemove(r0, KeyAt(r0, 0))[1]
          IN [ps |-> [ps EXCEPT ![pid] = leaf2, ![right] = r1],
              delete_node |-> Append(del0, <<KeyAt(r0, 0), right>>),
              add_node |-> << <<KeyAt(leaf2, 0), pid>>, <<KeyAt(r1, 0), right>> >>,
              latched |-> {pid, right} \cup (IF left # INVALID_PAGE_ID THEN {left} ELSE {})]
     ELSE IF left # INVALID_PAGE_ID
     THEN LET l0 == ps[left]
              moved == MoveTailLeaf(leaf1, l0, 0)
              l1 == [moved[2] EXCEPT !.next = moved[1].next]
          IN [ps |-> [ps EXCEPT ![pid] = moved[1], ![left] = l1],
              delete_node |-> Append(del0, <<KeyAt(l0, 0), left>>),
              add_node |-> << <<KeyAt(moved[2], 0), left>> >>,
              latched |-> {pid, left} \cup (IF right # INVALID_PAGE_ID THEN {right} ELSE {})]
     ELSE LET r0 == ps[right]
              moved == MoveTailLeaf(r0, leaf1, 0)
              leaf2 == [moved[2] EXCEPT !.next = moved[1].next]
          IN [ps |-> [ps EXCEPT ![pid] = leaf2, ![right] = moved[1]],
              delete_node |-> Append(del0, <<KeyAt(r0, 0), right>>),
              add_node |-> << <<KeyAt(moved[2], 0), pid>> >>,
              latched |-> {pid, right}]

\* The part of DfsRemove after the recursive call (lines 493-565).
DfsRemoveInternalAfter(r, pid, left, right) ==
  LET internal0 == r.ps[pid]
      pre_key == KeyAt(internal0, 0)
      internal1 == InsertAll(RemoveAll(internal0, r.delete_node, 1), r.add_node, 1)
      del0 == << <<pre_key, pid>> >>
      ps == r.ps
      lat == r.latched \cup {pid}
  IN IF GetSize(internal1) >= GetMinSize(internal1) \/ (left = INVALID_PAGE_ID /\ right = INVALID_PAGE_ID)
     THEN [ps |-> [ps EXCEPT ![pid] = internal1], delete_node |-> del0,
           add_node |-> << <<KeyAt(internal1, 0), pid>> >>, latched |-> lat]
     ELSE IF left # INVALID_PAGE_ID /\ GetSize(ps[left]) - 1 >= GetMinSize(ps[left])
     THEN LET l0 == ps[left]
              size == GetSize(l0)
              internal2 == InternalInsert(internal1, KeyAt(l0, size - 1), ValueAt(l0, size - 1))[1]
          IN [ps |-> [ps EXCEPT ![pid] = internal2, ![left] = IncreaseSize(l0, 0 - 1)],
              delete_node |-> del0, add_node |-> << <<KeyAt(internal2, 0), pid>> >>,
              latched |-> lat \cup {left}]
     ELSE IF right # INVALID_PAGE_ID /\ GetSize(ps[right]) - 1 >= GetMinSize(ps[right])
     THEN LET r0 == ps[right]
              internal2 == InternalInsert(internal1, KeyAt(r0, 0), ValueAt(r0, 0))[1]
              r1 == InternalRemove(r0, KeyAt(r0, 0))[1]
          IN [ps |-> [ps EXCEPT ![pid] = internal2, ![right] = r1],
              delete_node |-> Append(del0, <<KeyAt(r0, 0), right>>),
              add_node |-> << <<KeyAt(internal2, 0), pid>>, <<KeyAt(r1, 0), right>> >>,
              latched |-> lat \cup {right} \cup (IF left # INVALID_PAGE_ID THEN {left} ELSE {})]
     ELSE IF left # INVALID_PAGE_ID
     THEN LET l0 == ps[left]
              moved == MoveTailInternal(l0, internal1, 0)
          IN [ps |-> [ps EXCEPT ![pid] = moved[2], ![left] = moved[1]],
              delete_node |-> Append(del0, <<KeyAt(l0, 0), left>>),
              add_node |-> << <<KeyAt(moved[2], 0), pid>> >>,
              latched |-> lat \cup {left} \cup (IF right # INVALID_PAGE_ID THEN {right} ELSE {})]
     ELSE LET r0 == ps[right]
              moved == MoveTailInternal(r0, internal1, 0)
          IN [ps |-> [ps EXCEPT ![pid] = moved[2], ![right] = moved[1]],
              delete_node |-> Append(del0, <<KeyAt(r0, 0), right>>),
              add_node |-> << <<KeyAt(moved[2], 0), pid>> >>,
              latched |-> lat \cup {right}]

RECURSIVE DfsRemove(_, _, _, _, _)
DfsRemove(ps, pid, left, right, key) ==
  IF IsLeafPage(ps[pid])
  THEN DfsRemoveLeaf(ps, pid, left, right, key)
  ELSE LET internal_page == ps[pid]
           index == ChildIndex(internal_page, 1, GetSize(internal_page) - 1, 0, key)
           son_page_id == ValueAt(internal_page, index)
           new_left == IF index - 1 >= 0 THEN ValueAt(internal_page, index - 1) ELSE INVALID_PAGE_ID
           new_right == IF index + 1 < GetSize(internal_page) THEN ValueAt(internal_page, index + 1)
                        ELSE INVALID_PAGE_ID
       IN DfsRemoveInternalAfter(DfsRemove(ps, son_page_id, new_left, new_right, key), pid, left, right)

\* BPlusTree::IsEmpty
IsEmpty(ps, root) == GetSize(ps[root]) = 0

\* The part of Remove under the header page's write latch (lines 574-584)
RemoveLatched(ps, root, key) ==
  LET r == DfsRemove(ps, root, INVALID_PAGE_ID, INVALID_PAGE_ID, key)
      root_page == r.ps[root]
  IN [ps |-> r.ps,
      root |-> IF ~IsLeafPage(root_page) /\ GetSize(root_page) = 1 THEN ValueAt(root_page, 0) ELSE root,
      latched |-> r.latched \cup {root}]

\* BPlusTree::Remove: [ps, root, latched]
TreeRemove(ps, root, key) ==
  IF IsEmpty(ps, root)
  THEN [ps |-> ps, root |-> root, latched |-> {}]
  ELSE RemoveLatched(ps, root, key)

\* ------------------------------------------------------------------------
\* BPlusTree::FindLeafRead / GetValue, Begin / End, IndexIterator
\* ------------------------------------------------------------------------
\* while (l < r) { mid = (l + r + 1) >> 1; if Key[mid] > key: r = mid - 1 else l = mid }
RECURSIVE UpperChild(_, _, _, _)
UpperChild(p, l, r, key) ==
  IF l < r
  THEN LET mid == (l + r + 1) \div 2
       IN IF KeyAt(p, mid) > key THEN UpperChild(p, l, mid - 1, key)
                                 ELSE UpperChild(p, mid, r, key)
  ELSE l

\* the child FindLeafRead descends to from an internal page (lines 113-127)
ReadChild(p, key) ==
  LET l == IF GetSize(p) = 1 \/ KeyAt(p, 1) > key THEN 0
           ELSE UpperChild(p, 1, GetSize(p) - 1, key)
  IN ValueAt(p, l)

\* the search in the leaf (lines 93-107): <<found, index>>
ReadLeaf(p, key) ==
  LET l == LowerBound(p, 0, GetSize(p) - 1, key)
  IN <<KeyAt(p, l) = key, l>>

\* The descent of FindLeafRead from the page whose id the caller read out of the
\* header: [found, page, index, read_set]
RECURSIVE Descend(_, _, _, _)
Descend(ps, pid, key, read_set) ==
  IF IsLeafPage(ps[pid])
  THEN LET f == ReadLeaf(ps[pid], key)
       IN [found |-> f[1], page |-> pid, index |-> f[2], read_set |-> Append(read_set, pid)]
  ELSE Descend(ps, ReadChild(ps[pid], key), key, Append(read_set, pid))

FindLeafRead(ps, root, key) ==
  IF IsEmpty(ps, root)
  THEN [found |-> FALSE, page |-> INVALID_PAGE_ID, index |-> 0, read_set |-> <<>>]
  ELSE Descend(ps, root, key, <<>>)

\* BPlusTree::GetValue: the value pushed to result, NoValue when it returns false
GetValue(ps, root, key) ==
  LET opt == FindLeafRead(ps, root, key)
  IN IF opt.found THEN ValueAt(ps[opt.page], opt.index) ELSE NoValue

\* An iterator is <<page id of page_, index_>>; page_ == nullptr is INVALID_PAGE_ID.
IndexIterator(page_id, index) == IF page_id = INVALID_PAGE_ID THEN <<INVALID_PAGE_ID, 0>> ELSE <<page_id, index>>

\* BPlusTree::End
End == IndexIterator(INVALID_PAGE_ID, 0)

\* BPlusTree::Begin()
Begin(ps, root) ==
  IF IsEmpty(ps, root) THEN End
  ELSE IF IsLeafPage(ps[root]) THEN IndexIterator(root, 0)
  ELSE LET opt == FindLeafRead(ps, root, KeyAt(ps[root], 0))
       IN IndexIterator(IF opt.found THEN opt.page ELSE INVALID_PAGE_ID, 0)

\* BPlusTree::Begin(key)
BeginAt(ps, root, key) ==
  IF IsEmpty(ps, root) THEN End
  ELSE LET opt == FindLeafRead(ps, root, key)
       IN IF ~opt.found THEN End ELSE IndexIterator(opt.page, opt.index)

\* operator++ that ends the scan at the end of its leaf
IteratorNextStaysInLeaf(ps, it) ==
  IF it[1] = INVALID_PAGE_ID THEN it
  ELSE IF it[2] + 1 = GetSize(ps[it[1]]) THEN <<INVALID_PAGE_ID, 0>>
  ELSE <<it[1], it[2] + 1>>

\* IndexIterator::operator++
IteratorNext(ps, it) ==
  IF it[1] = INVALID_PAGE_ID THEN it
  ELSE IF it[2] + 1 = GetSize(ps[it[1]])
       THEN IF ps[it[1]].next = INVALID_PAGE_ID THEN <<INVALID_PAGE_ID, 0>>
            ELSE <<ps[it[1]].next, 0>>
       ELSE <<it[1], it[2] + 1>>

\* for (; it != End(); ++it) keys.push_back((*it).first); a scan longer than any
\* scan of the tree can be is cut by a -1
RECURSIVE Scan(_, _, _)
Scan(ps, it, fuel) ==
  IF it = End THEN <<>>
  ELSE IF fuel = 0 THEN <<0 - 1>>
  ELSE <<KeyAt(ps[it[1]], it[2])>> \o Scan(ps, IteratorNext(ps, it), fuel - 1)

ScanFuel == 2 * MaxKey + 2

\* ------------------------------------------------------------------------
\* The tree driven by one thread
\* ------------------------------------------------------------------------
\* BPlusTree::BPlusTree: the header page is page 0, the root an empty leaf
TreeInit ==
  /\ leaf_max_size \in LeafMaxSizes
  /\ internal_max_size \in InternalMaxSizes
  /\ pages = [pid \in PageIds |-> IF pid = 1 THEN LeafInit(ZeroPage, leaf_max_size) ELSE ZeroPage]
  /\ root_page_id = 1
  /\ next_page_id = 2
  /\ ref = [k \in Keys |-> NoValue]
  /\ last = [op |-> "init", ret |-> TRUE, ref_ret |-> TRUE]

InsertOp(k, v) ==
  /\ next_page_id + Height(pages, root_page_id) <= MaxPages
  /\ \E r \in {TreeInsert(pages, next_page_id, root_page_id, leaf_max_size, internal_max_size, k, v)} :
     /\ pages' = r.ps
     /\ next_page_id' = r.nxt
     /\ root_page_id' = r.root
     /\ ref' = IF ref[k] = NoValue THEN [ref EXCEPT ![k] = v] ELSE ref
     /\ last' = [op |-> "insert", ret |-> r.ret, ref_ret |-> (ref[k] = NoValue)]
     /\ UNCHANGED <<leaf_max_size, internal_max_size>>
     /\ UNCHANGED treeOthers

RemoveOp(k) ==
  \E r \in {TreeRemove(pages, root_page_id, k)} :
     /\ pages' = r.ps
     /\ root_page_id' = r.root
     /\ ref' = [ref EXCEPT ![k] = NoValue]
     /\ last' = [op |-> "remove", ret |-> TRUE, ref_ret |-> TRUE]
     /\ UNCHANGED <<next_page_id, leaf_max_size, internal_max_size>>
     /\ UNCHANGED treeOthers

TreeNext ==
  \/ \E k \in Keys : \E v \in ValuesOf(k) : InsertOp(k, v)
  \/ \E k \in Keys : RemoveOp(k)

\* The tree with leaf_max_size 3 over the keys 1..MaxWideKey: enough keys for three
\* leaves of which the middle one underflows between two that cannot lend
WideKeys == 1..MaxWideKey

WideInit ==
  /\ leaf_max_size = 3
  /\ internal_max_size = 3
  /\ pages = [pid \in PageIds |-> IF pid = 1 THEN LeafInit(ZeroPage, leaf_max_size) ELSE ZeroPage]
  /\ root_page_id = 1
  /\ next_page_id = 2
  /\ ref = [k \in WideKeys |-> NoValue]
  /\ last = [op |-> "init", ret |-> TRUE, ref_ret |-> TRUE]

\* Insert(k, RID(k)) while the pages it may allocate are within MaxWidePages
WideInsertOp(k) ==
  /\ next_page_id + Height(pages, root_page_id) <= MaxWidePages
  /\ \E r \in {TreeInsert(pages, next_page_id, root_page_id, leaf_max_size, internal_max_size, k, k)} :
     /\ pages' = r.ps
     /\ next_page_id' = r.nxt
     /\ root_page_id' = r.root
     /\ ref' = IF ref[k] = NoValue THEN [ref EXCEPT ![k] = k] ELSE ref
     /\ last' = [op |-> "insert", ret |-> r.ret, ref_ret |-> (ref[k] = NoValue)]
     /\ UNCHANGED <<leaf_max_size, internal_max_size>>
     /\ UNCHANGED treeOthers

WideNext ==
  \/ \E k \in WideKeys : WideInsertOp(k)
  \/ \E k \in WideKeys : RemoveOp(k)

\* ------------------------------------------------------------------------
\* Close and reopen: FlushAllPages, then a new BufferPoolManager and a new
\* BPlusTree over the same disk and the same header_page_id
\* ------------------------------------------------------------------------
\* What root_page_id_ reads as in a page that LeafPage::Init has written: the header
\* page's root_page_id_ and a tree page's page_type_ are the first field of the same
\* bytes, and the enumerators of IndexPageType are INVALID, LEAF and INTERNAL.
LeafPageTypeValues == 0..2

\* The new BufferPoolManager counts next_page_id_ from 0 again.  The constructor of
\* the tree fetches the header page (page 0, read from disk into the last frame),
\* NewPageGuarded(&header_page->root_page_id_) allocates page id 0 once more in
\* another frame, and FetchPageWrite(0) finds that frame first and makes it an empty
\* leaf.  From then on every FetchPage(0) of the tree returns this leaf, whose bytes
\* the tree reads as its header page.
ReopenOp ==
  /\ last.op # "reopen"
  /\ \E r \in LeafPageTypeValues :
       /\ pages' = (HEADER_PAGE_ID :> LeafInit(ZeroPage, leaf_max_size)) @@ pages
       /\ root_page_id' = r
       /\ next_page_id' = 1
       /\ last' = [op |-> "reopen",
                   ret |-> [k \in Keys |-> GetValue(pages, root_page_id, k)],
                   ref_ret |-> [k \in Keys |-> GetValue(pages, root_page_id, k)]]
       /\ UNCHANGED <<leaf_max_size, internal_max_size, ref>>
       /\ UNCHANGED treeOthers

\* calls on the tree until it is closed, then the reopening
ReopenNext ==
  \/ last.op # "reopen" /\ TreeNext
  \/ ReopenOp

TreeIdle ==
  /\ leaf_max_size = 0
  /\ internal_max_size = 0
  /\ pages = <<>>
  /\ root_page_id = INVALID_PAGE_ID
  /\ next_page_id = 0
  /\ ref = <<>>
  /\ last = <<>>


\* ------------------------------------------------------------------------
\* LRUKReplacer (lru_k_replacer.cpp)
\* ------------------------------------------------------------------------
\* LRUKNode: the last k timestamps of a frame (oldest first) and its evictable flag
NoNode == [present |-> FALSE, history |-> <<>>, is_evictable |-> FALSE]

\* LRUKNode::AddHistory: the ring keeps the last k timestamps
AddHistory(node, k, ts) ==
  LET h == Append(node.history, ts)
  IN [node EXCEPT !.history = IF Len(h) > k THEN Tail(h) ELSE h]

\* LRUKNode::GetKthHistory: the oldest timestamp the ring holds
GetKthHistory(node) == node.history[1]

\* LRUKReplacer::LRUKReplacer
NewReplacer(num_frames, k) ==
  [replacer_size |-> num_frames, k |-> k, curr_size |-> 0, current_timestamp |-> 0,
   node_store |-> [f \in 0..num_frames |-> NoNode], new_frame |-> <<>>, cache_frame |-> <<>>]

\* std::list::erase of the element holding frame f
RECURSIVE ListErase(_, _)
ListErase(list, f) ==
  IF list = <<>> THEN <<>>
  ELSE IF Head(list) = f THEN Tail(list)
  ELSE <<Head(list)>> \o ListErase(Tail(list), f)

\* the scan of one list in Evict: the evictable frame with the least GetKthHistory,
\* the first such in list order; -1 when the list holds no evictable frame
RECURSIVE FindVictim(_, _, _, _)
FindVictim(rep, list, i, find_id) ==
  IF i > Len(list) THEN find_id
  ELSE LET cur_id == list[i]
           cur_node == rep.node_store[cur_id]
       IN IF cur_node.is_evictable
             /\ (find_id = 0 - 1 \/ GetKthHistory(cur_node) < GetKthHistory(rep.node_store[find_id]))
          THEN FindVictim(rep, list, i + 1, cur_id)
          ELSE FindVictim(rep, list, i + 1, find_id)

\* LRUKReplacer::Evict: [rep, ok, frame_id]
Evict(rep) ==
  LET in_new == FindVictim(rep, rep.new_frame, 1, 0 - 1)
      in_cache == FindVictim(rep, rep.cache_frame, 1, 0 - 1)
  IN IF in_new # 0 - 1
     THEN [rep |-> [rep EXCEPT !.new_frame = ListErase(rep.new_frame, in_new),
                               !.node_store[in_new] = NoNode,
                               !.curr_size = rep.curr_size - 1],
           ok |-> TRUE, frame_id |-> in_new]
     ELSE IF in_cache # 0 - 1
     THEN [rep |-> [rep EXCEPT !.cache_frame = ListErase(rep.cache_frame, in_cache),
                               !.node_store[in_cache] = NoNode,
                               !.curr_size = rep.curr_size - 1],
           ok |-> TRUE, frame_id |-> in_cache]
     ELSE [rep |-> rep, ok |-> FALSE, frame_id |-> 0 - 1]

\* RecordAccess throws on this frame id (line 76)
RecordAccessThrows(rep, frame_id) == frame_id > rep.replacer_size

\* RecordAccess reaches the Evict call of line 112 with latch_ already held
RecordAccessRelocks(rep, frame_id) ==
  /\ ~RecordAccessThrows(rep, frame_id)
  /\ ~rep.node_store[frame_id].present
  /\ rep.curr_size = rep.replacer_size

\* a RecordAccess that leaves a tracked frame where it is in new_frame_
RecordAccessNeverMoves(rep, frame_id) ==
  LET ts == rep.current_timestamp + 1
      rep1 == [rep EXCEPT !.current_timestamp = ts]
  IN IF rep1.node_store[frame_id].present
     THEN [rep1 EXCEPT !.node_store[frame_id] = AddHistory(rep1.node_store[frame_id], rep.k, ts)]
     ELSE LET rep2 == IF rep1.curr_size = rep1.replacer_size THEN Evict(rep1).rep ELSE rep1
          IN [rep2 EXCEPT !.new_frame = <<frame_id>> \o rep2.new_frame,
                          !.node_store[frame_id] = AddHistory([NoNode EXCEPT !.present = TRUE], rep.k, ts)]

\* LRUKReplacer::RecordAccess, for a frame id that passes the check; where the
\* call re-locks latch_ this is the outcome of a build whose second lock returns
RecordAccess(rep, frame_id) ==
  LET ts == rep.current_timestamp + 1
      rep1 == [rep EXCEPT !.current_timestamp = ts]
  IN IF rep1.node_store[frame_id].present
     THEN LET node == rep1.node_store[frame_id]
              size_of_history == Len(node.history)
              rep2 == [rep1 EXCEPT !.node_store[frame_id] = AddHistory(node, rep.k, ts)]
          IN IF size_of_history + 1 = rep.k
             THEN [rep2 EXCEPT !.new_frame = ListErase(rep2.new_frame, frame_id),
                               !.cache_frame = <<frame_id>> \o rep2.cache_frame]
             ELSE IF size_of_history + 1 < rep.k \/ rep.k = 1
             THEN [rep2 EXCEPT !.new_frame = <<frame_id>> \o ListErase(rep2.new_frame, frame_id)]
             ELSE rep2
     ELSE LET rep2 == IF rep1.curr_size = rep1.replacer_size THEN Evict(rep1).rep ELSE rep1
          IN [rep2 EXCEPT !.new_frame = <<frame_id>> \o rep2.new_frame,
                          !.node_store[frame_id] = AddHistory([NoNode EXCEPT !.present = TRUE], rep.k, ts)]

\* a SetEvictable that counts every call that sets the flag
SetEvictableCountsCalls(rep, frame_id, set_evictable) ==
  IF frame_id \notin DOMAIN rep.node_store \/ ~rep.node_store[frame_id].present THEN rep
  ELSE [rep EXCEPT !.node_store[frame_id].is_evictable = set_evictable,
                   !.curr_size = IF set_evictable THEN rep.curr_size + 1 ELSE rep.curr_size - 1]

\* LRUKReplacer::SetEvictable
SetEvictable(rep, frame_id, set_evictable) ==
  IF frame_id \notin DOMAIN rep.node_store \/ ~rep.node_store[frame_id].present THEN rep
  ELSE LET state == rep.node_store[frame_id].is_evictable
       IN [rep EXCEPT !.node_store[frame_id].is_evictable = set_evictable,
                      !.curr_size = IF state # set_evictable
                                    THEN (IF ~state THEN rep.curr_size + 1 ELSE rep.curr_size - 1)
                                    ELSE rep.curr_size]

\* LRUKReplacer::Remove throws on this frame (line 154)
ReplacerRemoveThrows(rep, frame_id) ==
  /\ frame_id \in DOMAIN rep.node_store
  /\ rep.node_store[frame_id].present
  /\ ~rep.node_store[frame_id].is_evictable

\* a Remove that looks for every frame in new_frame_
ReplacerRemoveFromNew(rep, frame_id) ==
  IF frame_id \notin DOMAIN rep.node_store \/ ~rep.node_store[frame_id].present THEN rep
  ELSE [rep EXCEPT !.new_frame = ListErase(rep.new_frame, frame_id),
                   !.node_store[frame_id] = NoNode, !.curr_size = rep.curr_size - 1]

\* LRUKReplacer::Remove, where it does not throw
ReplacerRemove(rep, frame_id) ==
  IF frame_id \notin DOMAIN rep.node_store \/ ~rep.node_store[frame_id].present THEN rep
  ELSE LET node == rep.node_store[frame_id]
       IN IF Len(node.history) = rep.k /\ rep.k # 1
          THEN [rep EXCEPT !.cache_frame = ListErase(rep.cache_frame, frame_id),
                           !.node_store[frame_id] = NoNode, !.curr_size = rep.curr_size - 1]
          ELSE [rep EXCEPT !.new_frame = ListErase(rep.new_frame, frame_id),
                           !.node_store[frame_id] = NoNode, !.curr_size = rep.curr_size - 1]

\* LRUKReplacer::Size
ReplacerSize(rep) == rep.curr_size

\* ------------------------------------------------------------------------
\* The replacer driven by one thread, beside a reference LRU-K policy
\* ------------------------------------------------------------------------
NoAccess == [history |-> <<>>, is_evictable |-> FALSE]

\* the frame the reference policy evicts: among the evictable frames one with fewer
\* than k accesses if any (the one whose earliest access is oldest), otherwise the
\* one whose k-th most recent access is oldest; -1 when no frame is evictable
RefVictim(r, k) ==
  LET cand == {f \in DOMAIN r : r[f].history # <<>> /\ r[f].is_evictable}
      young == {f \in cand : Len(r[f].history) < k}
      kth(f) == r[f].history[Len(r[f].history) - k + 1]
  IN IF young # {} THEN CHOOSE f \in young : \A g \in young : r[f].history[1] <= r[g].history[1]
     ELSE IF cand # {} THEN CHOOSE f \in cand : \A g \in cand : kth(f) <= kth(g)
     ELSE 0 - 1

\* lru_out after a call that is not Evict
NoEvict == [op |-> "other", ok |-> FALSE, frame_id |-> 0 - 1, ref_frame_id |-> 0 - 1, accesses |-> 0]

LruIdle ==
  /\ replacer = NewReplacer(0, 1)
  /\ lru_ref = <<>>
  /\ lru_out = <<>>
  /\ lru_hung = FALSE

LruInit ==
  /\ \E k \in 1..MaxK : replacer = NewReplacer(NumFrames, k)
  /\ lru_ref = [f \in 0..NumFrames |-> NoAccess]
  /\ lru_out = NoEvict
  /\ lru_hung = FALSE

\* RecordAccess(f) returns
LruRecordAccess(f) ==
  /\ ~lru_hung
  /\ replacer.current_timestamp < MaxTimestamp
  /\ ~RecordAccessThrows(replacer, f)
  /\ replacer' = RecordAccess(replacer, f)
  /\ lru_ref' = [lru_ref EXCEPT ![f].history = Append(@, replacer.current_timestamp + 1)]
  /\ lru_out' = NoEvict
  /\ UNCHANGED <<lru_hung, lruOthers>>

\* RecordAccess(f) locks latch_ a second time and the thread stays there
LruRecordAccessHangs(f) ==
  /\ ~lru_hung
  /\ replacer.current_timestamp < MaxTimestamp
  /\ RecordAccessRelocks(replacer, f)
  /\ lru_hung' = TRUE
  /\ replacer' = [replacer EXCEPT !.current_timestamp = replacer.current_timestamp + 1]
  /\ lru_out' = NoEvict
  /\ UNCHANGED <<lru_ref, lruOthers>>

LruSetEvictable(f, flag) ==
  /\ ~lru_hung
  /\ replacer' = SetEvictable(replacer, f, flag)
  /\ lru_ref' = IF lru_ref[f].history # <<>> THEN [lru_ref EXCEPT ![f].is_evictable = flag] ELSE lru_ref
  /\ lru_out' = NoEvict
  /\ UNCHANGED <<lru_hung, lruOthers>>

LruEvict ==
  LET e == Evict(replacer)
      v == RefVictim(lru_ref, replacer.k)
  IN /\ ~lru_hung
     /\ replacer' = e.rep
     /\ lru_out' = [NoEvict EXCEPT !.op = "evict", !.ok = e.ok, !.frame_id = e.frame_id, !.ref_frame_id = v]
     /\ lru_ref' = IF v # 0 - 1 THEN [lru_ref EXCEPT ![v] = NoAccess] ELSE lru_ref
     /\ UNCHANGED <<lru_hung, lruOthers>>

\* Remove(f); where it throws nothing has changed
LruRemove(f) ==
  /\ ~lru_hung
  /\ replacer' = IF ReplacerRemoveThrows(replacer, f) THEN replacer ELSE ReplacerRemove(replacer, f)
  /\ lru_ref' = IF lru_ref[f].is_evictable THEN [lru_ref EXCEPT ![f] = NoAccess] ELSE lru_ref
  /\ lru_out' = [NoEvict EXCEPT !.op = IF ReplacerRemoveThrows(replacer, f) THEN "throw" ELSE "remove",
                                !.frame_id = f,
                                !.ok = replacer.node_store[f].present,
                                !.accesses = Len(lru_ref[f].history)]
  /\ UNCHANGED <<lru_hung, lruOthers>>

\* --- a replacer with K = 2 and 7 frames whose caller accesses the frames
\* 1,2,3,4,5,6,1,2 in that order and marks accessed frames evictable ---
AccessScript == <<1, 2, 3, 4, 5, 6, 1, 2>>

ScriptInit ==
  /\ replacer = NewReplacer(7, 2)
  /\ lru_ref = [f \in 0..7 |-> NoAccess]
  /\ lru_out = NoEvict
  /\ lru_hung = FALSE

\* the next RecordAccess of the script
ScriptRecordAccess ==
  /\ replacer.current_timestamp < Len(AccessScript)
  /\ \E f \in {AccessScript[replacer.current_timestamp + 1]} :
       /\ ~RecordAccessThrows(replacer, f)
       /\ ~RecordAccessRelocks(replacer, f)
       /\ replacer' = RecordAccess(replacer, f)
       /\ lru_ref' = [lru_ref EXCEPT ![f].history = Append(@, replacer.current_timestamp + 1)]
  /\ lru_out' = NoEvict
  /\ UNCHANGED <<lru_hung, lruOthers>>

\* SetEvictable(f, true) on a frame that has been accessed
ScriptSetEvictable(f) ==
  /\ replacer.node_store[f].present
  /\ replacer' = SetEvictable(replacer, f, TRUE)
  /\ lru_ref' = [lru_ref EXCEPT ![f].is_evictable = TRUE]
  /\ lru_out' = NoEvict
  /\ UNCHANGED <<lru_hung, lruOthers>>

ScriptNext ==
  \/ ScriptRecordAccess
  \/ \E f \in 0..7 : ScriptSetEvictable(f)

LruNext ==
  \/ \E f \in 0..NumFrames : LruRecordAccess(f)
  \/ \E f \in 0..NumFrames : LruRecordAccessHangs(f)
  \/ \E f \in 0..NumFrames, flag \in BOOLEAN : LruSetEvictable(f, flag)
  \/ LruEvict
  \/ \E f \in 0..NumFrames : LruRemove(f)


\* ------------------------------------------------------------------------
\* BufferPoolManager: src/buffer/buffer_pool_manager.cpp ("main", the frames are
\* searched by page id) and p1_file/src/buffer/buffer_pool_manager.cpp ("p1",
\* with a page table)
\* ------------------------------------------------------------------------
FrameIds == 0..(PoolSize - 1)
BpmPageIds == 0..(MaxBpmPages - 1)

\* Page::Page: a frame of new Page[pool_size_]
FreshFrame == [page_id |-> INVALID_PAGE_ID, pin_count |-> 0, is_dirty |-> FALSE, data |-> 0]

\* BufferPoolManager::BufferPoolManager
NewBpm(k) ==
  [pages_ |-> [f \in FrameIds |-> FreshFrame],
   free_list |-> [i \in 1..PoolSize |-> i - 1],
   page_table |-> [p \in BpmPageIds |-> 0 - 1],
   replacer |-> NewReplacer(PoolSize, k),
   disk |-> [p \in BpmPageIds |-> 0],
   next_page_id |-> 0]

\* for (i = 0; i < pool_size_; i++) if (pages_[i].GetPageId() == page_id) { frame_id = i; break; }
FindFrame(b, page_id) ==
  LET hit == {f \in FrameIds : b.pages_[f].page_id = page_id}
  IN IF hit = {} THEN 0 - 1 ELSE CHOOSE f \in hit : \A g \in hit : f <= g

\* DiskManager::WritePage
WritePage(b, page_id, data) ==
  IF page_id \in BpmPageIds THEN [b EXCEPT !.disk[page_id] = data] ELSE b

\* a victim whose dirty flag is cleared without its bytes being written
WriteBackDropped(b, frame_id) == [b EXCEPT !.pages_[frame_id].is_dirty = FALSE]

\* the victim's write-back of NewPage / FetchPage (lines 53-56, 96-99)
WriteBackIfDirty(b, frame_id) ==
  IF b.pages_[frame_id].is_dirty
  THEN [WritePage(b, b.pages_[frame_id].page_id, b.pages_[frame_id].data)
          EXCEPT !.pages_[frame_id].is_dirty = FALSE]
  ELSE b

\* Obtaining a frame in NewPage / FetchPage (lines 46-57, 89-100):
\* [b, frame_id, evicted]; frame_id = -1 is the nullptr return
TakeFrame(b) ==
  IF b.free_list # <<>>
  THEN [b |-> [b EXCEPT !.free_list = SubSeq(b.free_list, 1, Len(b.free_list) - 1)],
        frame_id |-> b.free_list[Len(b.free_list)], evicted |-> INVALID_PAGE_ID]
  ELSE LET e == Evict(b.replacer)
       IN IF ~e.ok THEN [b |-> b, frame_id |-> 0 - 1, evicted |-> INVALID_PAGE_ID]
          ELSE [b |-> WriteBackIfDirty([b EXCEPT !.replacer = e.rep], e.frame_id),
                frame_id |-> e.frame_id, evicted |-> b.pages_[e.frame_id].page_id]

\* BufferPoolManager::NewPage (main): [b, page_id, frame_id, evicted]
NewPage(b) ==
  LET t == TakeFrame(b)
      f == t.frame_id
      page_id == t.b.next_page_id
  IN IF f = 0 - 1 THEN [b |-> b, page_id |-> INVALID_PAGE_ID, frame_id |-> f, evicted |-> INVALID_PAGE_ID]
     ELSE [b |-> [t.b EXCEPT !.next_page_id = page_id + 1,
                             !.pages_[f].page_id = page_id,
                             !.pages_[f].is_dirty = FALSE,
                             !.pages_[f].pin_count = 1,
                             !.replacer = SetEvictable(RecordAccess(t.b.replacer, f), f, FALSE)],
           page_id |-> page_id, frame_id |-> f, evicted |-> t.evicted]

\* BufferPoolManager::FetchPage (main): [b, frame_id, hit, evicted]
FetchPage(b, page_id) ==
  LET found == FindFrame(b, page_id)
  IN IF found # 0 - 1
     THEN [b |-> [b EXCEPT !.pages_[found].pin_count = @ + 1,
                           !.replacer = SetEvictable(RecordAccess(b.replacer, found), found, FALSE)],
           frame_id |-> found, hit |-> TRUE, evicted |-> INVALID_PAGE_ID]
     ELSE LET t == TakeFrame(b)
              f == t.frame_id
          IN IF f = 0 - 1 THEN [b |-> b, frame_id |-> f, hit |-> FALSE, evicted |-> INVALID_PAGE_ID]
             ELSE [b |-> [t.b EXCEPT !.pages_[f].page_id = page_id,
                                     !.pages_[f].is_dirty = FALSE,
                                     !.pages_[f].pin_count = 1,
                                     !.pages_[f].data = t.b.disk[page_id],
                                     !.replacer = SetEvictable(RecordAccess(t.b.replacer, f), f, FALSE)],
                   frame_id |-> f, hit |-> FALSE, evicted |-> t.evicted]

\* BufferPoolManager::UnpinPage (main): [b, ret]
\* an UnpinPage that ORs the dirty flag in before it looks at the pin count
UnpinPageDirtiesFirst(b, page_id, is_dirty) ==
  LET f == FindFrame(b, page_id)
  IN IF f = 0 - 1 THEN [b |-> b, ret |-> FALSE]
     ELSE IF b.pages_[f].pin_count = 0
          THEN [b |-> [b EXCEPT !.pages_[f].is_dirty = @ \/ is_dirty], ret |-> FALSE]
     ELSE [b |-> [b EXCEPT !.pages_[f].pin_count = @ - 1,
                           !.pages_[f].is_dirty = @ \/ is_dirty,
                           !.replacer = IF b.pages_[f].pin_count = 1
                                        THEN SetEvictable(b.replacer, f, TRUE) ELSE b.replacer],
           ret |-> TRUE]

\* an UnpinPage that stores its argument in the dirty flag
UnpinPageAssignsDirty(b, page_id, is_dirty) ==
  LET f == FindFrame(b, page_id)
  IN IF f = 0 - 1 THEN [b |-> b, ret |-> FALSE]
     ELSE IF b.pages_[f].pin_count = 0 THEN [b |-> b, ret |-> FALSE]
     ELSE [b |-> [b EXCEPT !.pages_[f].pin_count = @ - 1,
                           !.pages_[f].is_dirty = is_dirty,
                           !.replacer = IF b.pages_[f].pin_count = 1
                                        THEN SetEvictable(b.replacer, f, TRUE) ELSE b.replacer],
           ret |-> TRUE]

UnpinPage(b, page_id, is_dirty) ==
  LET f == FindFrame(b, page_id)
  IN IF f = 0 - 1 THEN [b |-> b, ret |-> FALSE]
     ELSE IF b.pages_[f].pin_count = 0 THEN [b |-> b, ret |-> FALSE]
     ELSE [b |-> [b EXCEPT !.pages_[f].pin_count = @ - 1,
                           !.pages_[f].is_dirty = @ \/ is_dirty,
                           !.replacer = IF b.pages_[f].pin_count = 1
                                        THEN SetEvictable(b.replacer, f, TRUE) ELSE b.replacer],
           ret |-> TRUE]

\* BufferPoolManager::FlushPage (main): [b, ret]
FlushPage(b, page_id) ==
  LET f == FindFrame(b, page_id)
  IN IF f = 0 - 1 THEN [b |-> b, ret |-> FALSE]
     ELSE [b |-> [WritePage(b, b.pages_[f].page_id, b.pages_[f].data) EXCEPT !.pages_[f].is_dirty = FALSE],
           ret |-> TRUE]

\* BufferPoolManager::FlushAllPages (main), frame by frame
RECURSIVE FlushAllFrom(_, _)
FlushAllFrom(b, i) ==
  IF i >= PoolSize THEN b
  ELSE IF b.pages_[i].page_id # INVALID_PAGE_ID
       THEN FlushAllFrom([WritePage(b, b.pages_[i].page_id, b.pages_[i].data)
                            EXCEPT !.pages_[i].is_dirty = FALSE], i + 1)
       ELSE FlushAllFrom(b, i + 1)

FlushAllPages(b) == FlushAllFrom(b, 0)

\* BufferPoolManager::DeletePage (main): [b, ret, threw]
DeletePage(b, page_id) ==
  LET f == FindFrame(b, page_id)
  IN IF f = 0 - 1 THEN [b |-> b, ret |-> TRUE, threw |-> FALSE]
     ELSE IF b.pages_[f].pin_count > 0 THEN [b |-> b, ret |-> FALSE, threw |-> FALSE]
     ELSE IF ReplacerRemoveThrows(b.replacer, f) THEN [b |-> b, ret |-> FALSE, threw |-> TRUE]
     ELSE [b |-> [b EXCEPT !.replacer = ReplacerRemove(b.replacer, f),
                           !.free_list = Append(b.free_list, f)],
           ret |-> TRUE, threw |-> FALSE]

\* --- p1_file/src/buffer/buffer_pool_manager.cpp ---

\* the pinall loop of NewPage / FetchPage (p1)
PinAll(b) == \A f \in FrameIds : b.pages_[f].pin_count # 0

\* Obtaining a frame in NewPage / FetchPage (p1): the free list's front, else the
\* replacer's victim, written back when dirty, zeroed and taken out of the page
\* table. Evict's return value is not looked at: where it fails fid is
\* indeterminate (ub).
P1TakeFrame(b) ==
  IF b.free_list # <<>>
  THEN [b |-> [b EXCEPT !.free_list = Tail(b.free_list)],
        frame_id |-> Head(b.free_list), evicted |-> INVALID_PAGE_ID, ub |-> FALSE]
  ELSE LET e == Evict(b.replacer)
           old == b.pages_[e.frame_id].page_id
           b1 == WriteBackIfDirty([b EXCEPT !.replacer = e.rep], e.frame_id)
       IN IF ~e.ok THEN [b |-> b, frame_id |-> 0 - 1, evicted |-> INVALID_PAGE_ID, ub |-> TRUE]
          ELSE [b |-> [b1 EXCEPT !.pages_[e.frame_id].data = 0,
                                 !.page_table = [p \in BpmPageIds |-> IF p = old THEN 0 - 1 ELSE b1.page_table[p]]],
                frame_id |-> e.frame_id, evicted |-> old, ub |-> FALSE]

\* BufferPoolManager::NewPage (p1): [b, page_id, frame_id, evicted]
P1NewPage(b) ==
  IF PinAll(b) THEN [b |-> b, page_id |-> INVALID_PAGE_ID, frame_id |-> 0 - 1, evicted |-> INVALID_PAGE_ID]
  ELSE LET t == P1TakeFrame(b)
           f == t.frame_id
           page_id == t.b.next_page_id
       IN IF t.ub THEN [b |-> b, page_id |-> INVALID_PAGE_ID, frame_id |-> 0 - 1, evicted |-> INVALID_PAGE_ID]
          ELSE [b |-> [t.b EXCEPT !.next_page_id = page_id + 1,
                                  !.page_table[page_id] = f,
                                  !.pages_[f].page_id = page_id,
                                  !.pages_[f].pin_count = 1,
                                  !.replacer = SetEvictable(RecordAccess(t.b.replacer, f), f, FALSE)],
                page_id |-> page_id, frame_id |-> f, evicted |-> t.evicted]

\* BufferPoolManager::FetchPage (p1): [b, frame_id, hit, evicted]
P1FetchPage(b, page_id) ==
  LET found == b.page_table[page_id]
  IN IF found # 0 - 1
     THEN [b |-> [b EXCEPT !.pages_[found].pin_count = @ + 1,
                           !.replacer = SetEvictable(RecordAccess(b.replacer, found), found, FALSE)],
           frame_id |-> found, hit |-> TRUE, evicted |-> INVALID_PAGE_ID]
     ELSE IF PinAll(b) THEN [b |-> b, frame_id |-> 0 - 1, hit |-> FALSE, evicted |-> INVALID_PAGE_ID]
     ELSE LET t == P1TakeFrame(b)
              f == t.frame_id
          IN IF t.ub THEN [b |-> b, frame_id |-> 0 - 1, hit |-> FALSE, evicted |-> INVALID_PAGE_ID]
             ELSE [b |-> [t.b EXCEPT !.page_table[page_id] = f,
                                     !.pages_[f].page_id = page_id,
                                     !.pages_[f].pin_count = 1,
                                     !.pages_[f].data = t.b.disk[page_id],
                                     !.replacer = SetEvictable(RecordAccess(t.b.replacer, f), f, FALSE)],
                   frame_id |-> f, hit |-> FALSE, evicted |-> t.evicted]

\* BufferPoolManager::UnpinPage (p1): [b, ret]
P1UnpinPage(b, page_id, is_dirty) ==
  LET f == b.page_table[page_id]
  IN IF f = 0 - 1 THEN [b |-> b, ret |-> FALSE]
     ELSE IF b.pages_[f].pin_count <= 0 THEN [b |-> b, ret |-> FALSE]
     ELSE [b |-> [b EXCEPT !.pages_[f].is_dirty = @ \/ is_dirty,
                           !.pages_[f].pin_count = @ - 1,
                           !.replacer = IF b.pages_[f].pin_count - 1 <= 0
                                        THEN SetEvictable(b.replacer, f, TRUE) ELSE b.replacer],
           ret |-> TRUE]

\* BufferPoolManager::FlushPage (p1): [b, ret]
P1FlushPage(b, page_id) ==
  IF page_id = INVALID_PAGE_ID \/ b.page_table[page_id] = 0 - 1 THEN [b |-> b, ret |-> FALSE]
  ELSE LET f == b.page_table[page_id]
       IN [b |-> [WritePage(b, page_id, b.pages_[f].data) EXCEPT !.pages_[f].is_dirty = FALSE],
           ret |-> TRUE]

\* BufferPoolManager::FlushAllPages (p1): FlushPage(pages_[i].GetPageId()) for each frame
RECURSIVE P1FlushAllFrom(_, _)
P1FlushAllFrom(b, i) ==
  IF i >= PoolSize THEN b
  ELSE P1FlushAllFrom(P1FlushPage(b, b.pages_[i].page_id).b, i + 1)

P1FlushAllPages(b) == P1FlushAllFrom(b, 0)

\* BufferPoolManager::DeletePage (p1): [b, ret, threw]
P1DeletePage(b, page_id) ==
  LET f == b.page_table[page_id]
  IN IF f = 0 - 1 THEN [b |-> b, ret |-> TRUE, threw |-> FALSE]
     ELSE IF b.pages_[f].pin_count > 0 THEN [b |-> b, ret |-> FALSE, threw |-> FALSE]
     ELSE IF ReplacerRemoveThrows(b.replacer, f) THEN [b |-> b, ret |-> FALSE, threw |-> TRUE]
     ELSE [b |-> [b EXCEPT !.replacer = ReplacerRemove(b.replacer, f),
                           !.free_list = Append(b.free_list, f),
                           !.pages_[f] = FreshFrame,
                           !.page_table[page_id] = 0 - 1],
           ret |-> TRUE, threw |-> FALSE]

\* ------------------------------------------------------------------------
\* Page guards: src/storage/page/page_guard.cpp ("main") and
\* p1_file/src/storage/page/page_guard.cpp ("p1"); a Read/Write guard is its
\* guard_ member and its kind
\* ------------------------------------------------------------------------
GuardSlots == 1..NumGuards
GuardKinds == {"basic", "read", "write"}

\* BasicPageGuard() = default, with the member initializers of page_guard.h
NullGuard == [bpm_ |-> FALSE, page_ |-> 0 - 1, is_dirty_ |-> FALSE]
\* a slot that holds no guard object
NoGuard == [kind |-> "none", alive |-> FALSE, g |-> NullGuard]

FreeLatch == [r |-> 0, w |-> FALSE, broken |-> FALSE]

\* Page::RLatch / WLatch return (otherwise the thread waits)
CanRLatch(l) == ~l.w /\ ~l.broken
CanWLatch(l) == ~l.w /\ l.r = 0 /\ ~l.broken
RLatch(l) == [l EXCEPT !.r = @ + 1]
WLatch(l) == [l EXCEPT !.w = TRUE]
\* Page::RUnlatch / WUnlatch by the holder
RUnlatch(l) == [l EXCEPT !.r = @ - 1]
WUnlatch(l) == [l EXCEPT !.w = FALSE]
\* WUnlatch by a caller that holds no exclusive lock (std::shared_mutex::unlock, undefined):
\* the lock word is released as a shared hold when there is one; with no hold at
\* all it is left alone or left unusable, by `ub`
WUnlatchAny(l, ub) ==
  IF l.w THEN WUnlatch(l)
  ELSE IF l.r > 0 THEN RUnlatch(l)
  ELSE IF ub THEN [l EXCEPT !.broken = TRUE] ELSE l

\* Drop that unpins and keeps bpm_ and page_
BasicDropKeepsPage(impl, b, lt, g, ub) ==
  IF g.bpm_ /\ g.page_ # 0 - 1
  THEN [b |-> IF impl = "main" THEN UnpinPage(b, b.pages_[g.page_].page_id, g.is_dirty_).b
              ELSE P1UnpinPage(b, b.pages_[g.page_].page_id, g.is_dirty_).b,
        latch |-> lt, g |-> g, unpinned |-> <<b.pages_[g.page_].page_id>>]
  ELSE [b |-> b, latch |-> lt, g |-> g, unpinned |-> <<>>]

\* BasicPageGuard::Drop: [b, latch, g, unpinned]; unpinned lists the page ids UnpinPage was called with
BasicDrop(impl, b, lt, g, ub) ==
  IF g.bpm_ /\ g.page_ # 0 - 1
  THEN LET page_id == b.pages_[g.page_].page_id
       IN [b |-> IF impl = "main" THEN UnpinPage(b, page_id, g.is_dirty_).b
                 ELSE P1UnpinPage(b, page_id, g.is_dirty_).b,
           latch |-> IF impl = "main" THEN lt ELSE [lt EXCEPT ![g.page_] = WUnlatchAny(@, ub)],
           g |-> [g EXCEPT !.bpm_ = FALSE, !.page_ = 0 - 1],
           unpinned |-> <<page_id>>]
  ELSE [b |-> b, latch |-> lt, g |-> g, unpinned |-> <<>>]

\* BasicPageGuard(BasicPageGuard &&that): <<this, that>>
BasicMoveCtor(impl, that) ==
  IF impl = "main"
  THEN <<that, NullGuard>>
  ELSE <<[NullGuard EXCEPT !.bpm_ = that.bpm_, !.page_ = that.page_],
         [that EXCEPT !.bpm_ = FALSE, !.page_ = 0 - 1]>>

\* BasicPageGuard::operator=(BasicPageGuard &&that) with this != &that:
\* [b, latch, this, that, unpinned]
BasicMoveAssign(impl, b, lt, this, that, ub) ==
  LET d == BasicDrop(impl, b, lt, this, ub)
  IN [b |-> d.b, latch |-> d.latch, this |-> that, that |-> NullGuard, unpinned |-> d.unpinned]

\* ReadPageGuard::Drop / WritePageGuard::Drop: [b, latch, g, unpinned]
LatchedDrop(impl, kind, b, lt, g, ub) ==
  IF impl = "main"
  THEN IF g.page_ = 0 - 1 THEN [b |-> b, latch |-> lt, g |-> g, unpinned |-> <<>>]
       ELSE BasicDrop(impl, b,
                      [lt EXCEPT ![g.page_] = IF kind = "read" THEN RUnlatch(@) ELSE WUnlatch(@)], g, ub)
  ELSE BasicDrop(impl, b, lt, g, ub)

\* Drop() of a guard of the given kind
GuardDropOf(impl, kind, b, lt, g, ub) ==
  IF kind = "basic" THEN BasicDrop(impl, b, lt, g, ub) ELSE LatchedDrop(impl, kind, b, lt, g, ub)

\* the move constructor of a guard of the given kind: <<this, that>>. The main
\* Read/Write constructors run Drop() on the new, empty guard and move-assign guard_.
GuardMoveCtorOf(impl, kind, that) ==
  IF kind = "basic" \/ impl = "p1" THEN BasicMoveCtor(impl, that) ELSE <<that, NullGuard>>

\* operator= of a guard of the given kind, this != &that: Drop(), then guard_ = std::move(that.guard_)
GuardMoveAssignOf(impl, kind, b, lt, this, that, ub) ==
  LET d == GuardDropOf(impl, kind, b, lt, this, ub)
      a == BasicMoveAssign(impl, d.b, d.latch, d.g, that, ub)
  IN IF kind = "basic" THEN BasicMoveAssign(impl, b, lt, this, that, ub)
     ELSE [a EXCEPT !.unpinned = d.unpinned \o a.unpinned]

\* the destructor of a guard of the given kind: Drop(), and for a Read/Write guard
\* the destructor of guard_ after it
GuardDtorOf(impl, kind, b, lt, g, ub) ==
  LET d == GuardDropOf(impl, kind, b, lt, g, ub)
      m == BasicDrop(impl, d.b, d.latch, d.g, ub)
  IN IF kind = "basic" THEN d ELSE [m EXCEPT !.unpinned = d.unpinned \o m.unpinned]

\* ------------------------------------------------------------------------
\* The buffer pool driven by callers that hold pins
\* ------------------------------------------------------------------------
NoData == 0 - 1
NoBpmOut == [op |-> "other", ok |-> FALSE, allpinned |-> FALSE, pin |-> 0, page_id |-> INVALID_PAGE_ID]

\* outcome of an UnpinPage, FlushPage or DeletePage call: the page asked for and the value returned
CallOut(op, page_id, ret) == [NoBpmOut EXCEPT !.op = op, !.ok = ret, !.page_id = page_id]

BpmIdle ==
  /\ bpm_impl = "none"
  /\ bpm = <<>>
  /\ held = <<>>
  /\ shadow = <<>>
  /\ evicted = <<>>
  /\ bpm_out = <<>>

BpmInit ==
  /\ bpm_impl \in {"main", "p1"}
  /\ bpm = NewBpm(BpmK)
  /\ held = [p \in BpmPageIds |-> 0]
  /\ shadow = [p \in BpmPageIds |-> NoData]
  /\ evicted = {}
  /\ bpm_out = NoBpmOut

\* the frame FetchPage would hit for page_id, -1 on a miss
Resident(b, page_id) == IF bpm_impl = "main" THEN FindFrame(b, page_id) ELSE b.page_table[page_id]

\* evicted after a call that took `victim` out of its frame and brought in page_id
EvictedAfter(victim, page_id) == (evicted \cup ({victim} \cap BpmPageIds)) \ {page_id}

BpmNewPage ==
  \E r \in {IF bpm_impl = "main" THEN NewPage(bpm) ELSE P1NewPage(bpm)} :
  LET ok == r.frame_id # 0 - 1
  IN /\ bpm.next_page_id < MaxBpmPages
     /\ bpm.replacer.current_timestamp < MaxBpmOps
     /\ bpm' = r.b
     /\ held' = IF ok THEN [held EXCEPT ![r.page_id] = @ + 1] ELSE held
     /\ evicted' = EvictedAfter(r.evicted, INVALID_PAGE_ID)
     /\ bpm_out' = [op |-> "new", ok |-> ok, allpinned |-> PinAll(bpm),
                    pin |-> IF ok THEN r.b.pages_[r.frame_id].pin_count ELSE 0,
                    page_id |-> INVALID_PAGE_ID]
     /\ UNCHANGED <<bpm_impl, shadow, bpmOthers>>

BpmFetchPage(page_id) ==
  \E r \in {IF bpm_impl = "main" THEN FetchPage(bpm, page_id) ELSE P1FetchPage(bpm, page_id)} :
  LET ok == r.frame_id # 0 - 1
  IN /\ page_id < bpm.next_page_id
     /\ held[page_id] < MaxPins
     /\ bpm.replacer.current_timestamp < MaxBpmOps
     /\ bpm' = r.b
     /\ held' = IF ok THEN [held EXCEPT ![page_id] = @ + 1] ELSE held
     /\ evicted' = IF ok THEN EvictedAfter(r.evicted, page_id) ELSE evicted
     /\ bpm_out' = IF r.hit THEN NoBpmOut
                    ELSE [op |-> "fetch", ok |-> ok, allpinned |-> PinAll(bpm),
                          pin |-> IF ok THEN r.b.pages_[r.frame_id].pin_count ELSE 0,
                          page_id |-> INVALID_PAGE_ID]
     /\ UNCHANGED <<bpm_impl, shadow, bpmOthers>>

\* UnpinPage(page_id, is_dirty) by a caller that holds a pin on the page, or on a
\* page nobody has pinned
BpmUnpinPage(page_id, is_dirty) ==
  \E r \in {IF bpm_impl = "main" THEN UnpinPage(bpm, page_id, is_dirty) ELSE P1UnpinPage(bpm, page_id, is_dirty)} :
     /\ page_id < bpm.next_page_id
     /\ held[page_id] > 0 \/ ~r.ret
     /\ bpm' = r.b
     /\ held' = IF r.ret THEN [held EXCEPT ![page_id] = @ - 1] ELSE held
     /\ bpm_out' = CallOut("unpin", page_id, r.ret)
     /\ UNCHANGED <<bpm_impl, shadow, evicted, bpmOthers>>

\* a caller that holds a pin on the page changes its bytes and unpins it as dirty
BpmWriteUnpin(page_id) ==
  \E f \in FrameIds :
   LET data == 1 - bpm.pages_[f].data
       b1 == [bpm EXCEPT !.pages_[f].data = data]
   IN /\ page_id < bpm.next_page_id
      /\ held[page_id] > 0
      /\ f = Resident(bpm, page_id)
      /\ bpm.pages_[f].pin_count > 0
      /\ bpm' = (IF bpm_impl = "main" THEN UnpinPage(b1, page_id, TRUE) ELSE P1UnpinPage(b1, page_id, TRUE)).b
     /\ held' = [held EXCEPT ![page_id] = @ - 1]
     /\ shadow' = [shadow EXCEPT ![page_id] = data]
     /\ bpm_out' = NoBpmOut
     /\ UNCHANGED <<bpm_impl, evicted, bpmOthers>>

BpmFlushPage(page_id) ==
  \E r \in {IF bpm_impl = "main" THEN FlushPage(bpm, page_id) ELSE P1FlushPage(bpm, page_id)} :
     /\ page_id < bpm.next_page_id
     /\ bpm' = r.b
     /\ bpm_out' = CallOut("flush", page_id, r.ret)
     /\ UNCHANGED <<bpm_impl, held, shadow, evicted, bpmOthers>>

BpmFlushAllPages ==
  /\ bpm' = IF bpm_impl = "main" THEN FlushAllPages(bpm) ELSE P1FlushAllPages(bpm)
  /\ bpm_out' = NoBpmOut
  /\ UNCHANGED <<bpm_impl, held, shadow, evicted, bpmOthers>>

BpmDeletePage(page_id) ==
  \E r \in {IF bpm_impl = "main" THEN DeletePage(bpm, page_id) ELSE P1DeletePage(bpm, page_id)} :
     /\ page_id < bpm.next_page_id
     /\ Len(r.b.free_list) <= MaxFreeList
     /\ bpm' = r.b
     /\ shadow' = IF r.ret /\ Resident(bpm, page_id) # 0 - 1 THEN [shadow EXCEPT ![page_id] = NoData] ELSE shadow
     /\ bpm_out' = CallOut("delete", page_id, r.ret)
     /\ UNCHANGED <<bpm_impl, held, evicted, bpmOthers>>

BpmNext ==
  \/ BpmNewPage
  \/ \E p \in BpmPageIds : BpmFetchPage(p)
  \/ \E p \in BpmPageIds, d \in BOOLEAN : BpmUnpinPage(p, d)
  \/ \E p \in BpmPageIds : BpmWriteUnpin(p)
  \/ \E p \in BpmPageIds \cup {INVALID_PAGE_ID} : BpmFlushPage(p)
  \/ BpmFlushAllPages
  \/ \E p \in BpmPageIds : BpmDeletePage(p)

\* ------------------------------------------------------------------------
\* Guards handed out by the buffer pool to one thread
\* ------------------------------------------------------------------------
NoGuardOut == [op |-> "none", released |-> <<>>]

GuardIdle ==
  /\ guards = <<>>
  /\ latch = <<>>
  /\ owed = <<>>
  /\ guard_out = <<>>

GuardInit ==
  /\ guards = [s \in GuardSlots |-> NoGuard]
  /\ latch = [f \in FrameIds |-> FreeLatch]
  /\ owed = [p \in BpmPageIds |-> 0]
  /\ guard_out = NoGuardOut

\* owed after UnpinPage was called with the page ids of `unpinned`
RECURSIVE OwedAfter(_, _)
OwedAfter(o, unpinned) ==
  IF unpinned = <<>> THEN o
  ELSE OwedAfter([p \in BpmPageIds |-> IF p = Head(unpinned) THEN o[p] - 1 ELSE o[p]], Tail(unpinned))

\* the guard a FetchPage* / NewPageGuarded returns for the frame (or nullptr) it got
GuardFor(kind, frame_id) ==
  [kind |-> kind, alive |-> TRUE, g |-> [bpm_ |-> TRUE, page_ |-> frame_id, is_dirty_ |-> FALSE]]

\* a thread that has faulted makes no further call
Running == guard_out.op # "fault"

\* page->RLatch() / page->WLatch() through a null pointer: the main FetchPageRead /
\* FetchPageWrite (lines 202-212) latch without a null test, p1's return first
LatchesNull(impl, kind, frame_id) == impl = "main" /\ kind # "basic" /\ frame_id = 0 - 1

\* FetchPageBasic / FetchPageRead / FetchPageWrite into slot s. Where the latch is
\* taken through a null pointer the thread faults and returns no guard. A latch
\* that is not available is waited for.
GuardFetch(s, kind, page_id) ==
  /\ Running
  /\ ~guards[s].alive
  /\ page_id < bpm.next_page_id
  /\ bpm.replacer.current_timestamp < MaxBpmOps
  /\ \E r \in {IF bpm_impl = "main" THEN FetchPage(bpm, page_id) ELSE P1FetchPage(bpm, page_id)} :
       IF LatchesNull(bpm_impl, kind, r.frame_id)
       THEN /\ guard_out' = [op |-> "fault", released |-> <<>>]
            /\ UNCHANGED <<bpm, latch, guards, owed>>
       ELSE /\ r.frame_id # 0 - 1 /\ kind = "read" => CanRLatch(latch[r.frame_id])
            /\ r.frame_id # 0 - 1 /\ kind = "write" => CanWLatch(latch[r.frame_id])
            /\ bpm' = r.b
            /\ latch' = IF r.frame_id = 0 - 1 \/ kind = "basic" THEN latch
                        ELSE [latch EXCEPT ![r.frame_id] = IF kind = "read" THEN RLatch(@) ELSE WLatch(@)]
            /\ guards' = [guards EXCEPT ![s] = GuardFor(kind, r.frame_id)]
            /\ owed' = IF r.frame_id # 0 - 1 THEN [owed EXCEPT ![page_id] = @ + 1] ELSE owed
            /\ guard_out' = [op |-> "fetch", released |-> <<>>]
  /\ UNCHANGED <<bpm_impl, guardOthers>>

\* NewPageGuarded into slot s
GuardNew(s) ==
  /\ Running
  /\ ~guards[s].alive
  /\ bpm.next_page_id < MaxBpmPages
  /\ bpm.replacer.current_timestamp < MaxBpmOps
  /\ \E r \in {IF bpm_impl = "main" THEN NewPage(bpm) ELSE P1NewPage(bpm)} :
       /\ bpm' = r.b
       /\ guards' = [guards EXCEPT ![s] = GuardFor("basic", r.frame_id)]
       /\ owed' = IF r.frame_id # 0 - 1 THEN [owed EXCEPT ![r.page_id] = @ + 1] ELSE owed
       /\ guard_out' = [op |-> "new", released |-> <<>>]
  /\ UNCHANGED <<bpm_impl, latch, guardOthers>>

\* guard.GetDataMut() / AsMut<T>() of a Basic or Write guard that holds a page: the
\* guard is marked dirty
GuardGetDataMut(s) ==
  /\ Running
  /\ guards[s].alive
  /\ guards[s].kind \in {"basic", "write"}
  /\ guards[s].g.page_ # 0 - 1
  /\ guards' = [guards EXCEPT ![s].g.is_dirty_ = TRUE]
  /\ guard_out' = [op |-> "get_data_mut", released |-> <<>>]
  /\ UNCHANGED <<bpm_impl, bpm, latch, owed, guardOthers>>

\* Guard d(std::move(s))
GuardMoveConstruct(d, s) ==
  /\ Running
  /\ guards[s].alive /\ ~guards[d].alive
  /\ \E m \in {GuardMoveCtorOf(bpm_impl, guards[s].kind, guards[s].g)} :
       guards' = [guards EXCEPT ![d] = [kind |-> guards[s].kind, alive |-> TRUE, g |-> m[1]],
                                ![s].g = m[2]]
  /\ guard_out' = [op |-> "move_construct", released |-> <<>>]
  /\ UNCHANGED <<bpm_impl, bpm, latch, owed, guardOthers>>

\* d = std::move(s), two guards of one kind; d = std::move(d) returns at once
GuardMoveAssign(d, s, ub) ==
  /\ Running
  /\ guards[s].alive /\ guards[d].alive /\ guards[s].kind = guards[d].kind
  /\ IF d = s
     THEN /\ guard_out' = [op |-> "self_assign", released |-> <<>>]
          /\ UNCHANGED <<bpm, latch, guards, owed>>
     ELSE \E a \in {GuardMoveAssignOf(bpm_impl, guards[d].kind, bpm, latch, guards[d].g, guards[s].g, ub)} :
            /\ bpm' = a.b
            /\ latch' = a.latch
            /\ guards' = [guards EXCEPT ![d].g = a.this, ![s].g = a.that]
            /\ owed' = OwedAfter(owed, a.unpinned)
            /\ guard_out' = [op |-> "move_assign", released |-> a.unpinned]
  /\ UNCHANGED <<bpm_impl, guardOthers>>

\* guard.Drop()
GuardDrop(s, ub) ==
  /\ Running
  /\ guards[s].alive
  /\ \E d \in {GuardDropOf(bpm_impl, guards[s].kind, bpm, latch, guards[s].g, ub)} :
       /\ bpm' = d.b
       /\ latch' = d.latch
       /\ guards' = [guards EXCEPT ![s].g = d.g]
       /\ owed' = OwedAfter(owed, d.unpinned)
       /\ guard_out' = [op |-> "drop", released |-> d.unpinned]
  /\ UNCHANGED <<bpm_impl, guardOthers>>

\* the guard goes out of scope
GuardDestroy(s, ub) ==
  /\ Running
  /\ guards[s].alive
  /\ \E d \in {GuardDtorOf(bpm_impl, guards[s].kind, bpm, latch, guards[s].g, ub)} :
       /\ bpm' = d.b
       /\ latch' = d.latch
       /\ guards' = [guards EXCEPT ![s] = NoGuard]
       /\ owed' = OwedAfter(owed, d.unpinned)
       /\ guard_out' = [op |-> "destroy", released |-> d.unpinned]
  /\ UNCHANGED <<bpm_impl, guardOthers>>

GuardNext ==
  \/ \E s \in GuardSlots, kind \in GuardKinds, p \in BpmPageIds : GuardFetch(s, kind, p)
  \/ \E s \in GuardSlots : GuardNew(s)
  \/ \E d \in GuardSlots, s \in GuardSlots : GuardMoveConstruct(d, s)
  \/ \E d \in GuardSlots, s \in GuardSlots, ub \in BOOLEAN : GuardMoveAssign(d, s, ub)
  \/ \E s \in GuardSlots, ub \in BOOLEAN : GuardDrop(s, ub)
  \/ \E s \in GuardSlots, ub \in BOOLEAN : GuardDestroy(s, ub)

\* the calls of a thread that writes through its guards, with NumDirtyGuards guard
\* variables
DirtySlots == 1..NumDirtyGuards

GuardDirtyNext ==
  \/ \E s \in DirtySlots, kind \in GuardKinds, p \in BpmPageIds : GuardFetch(s, kind, p)
  \/ \E s \in DirtySlots : GuardNew(s)
  \/ \E s \in DirtySlots : GuardGetDataMut(s)
  \/ \E d \in DirtySlots, s \in DirtySlots : GuardMoveConstruct(d, s)
  \/ \E d \in DirtySlots, s \in DirtySlots, ub \in BOOLEAN : GuardMoveAssign(d, s, ub)
  \/ \E s \in DirtySlots, ub \in BOOLEAN : GuardDrop(s, ub)
  \/ \E s \in DirtySlots, ub \in BOOLEAN : GuardDestroy(s, ub)

\* ------------------------------------------------------------------------
\* The tree called by several threads (b_plus_tree.cpp under the page latches)
\* ------------------------------------------------------------------------
\* Each step below is one stretch of a call between two latch acquisitions that
\* can make it wait.  A writer holds the header page's write latch from its
\* acquisition to its return, so the pages it write-latches in between are
\* latched and released within one step.
Writers == 1..NumWriters
Readers == (NumWriters + 1)..(NumWriters + NumReaders)
Threads == Writers \cup Readers
ConcKeys == 1..MaxConcKey
LatchIds == 0..MaxPages

\* A thread outside any call.  root is Context::root_page_id_, read_set is
\* Context::read_set_, root_guard the root_guard local of Begin(), new_page_id the
\* local of Insert; ret is the returned value, was the value the key had when the
\* call started.
NoCall == [op |-> "none", key |-> 0, pc |-> "idle", root |-> INVALID_PAGE_ID, read_set |-> <<>>,
           root_guard |-> INVALID_PAGE_ID, new_page_id |-> INVALID_PAGE_ID, ret |-> 0, ref_ret |-> 0,
           was |-> NoValue, touched |-> FALSE, raced |-> FALSE, calls |-> 0]

ConcIdle ==
  /\ threads = <<>>
  /\ page_latch = <<>>

ConcInit ==
  /\ TreeInit
  /\ threads = [t \in Threads |-> NoCall]
  /\ page_latch = [p \in LatchIds |-> FreeLatch]

\* ~ReadPageGuard of every guard in ids
RECURSIVE RUnlatchAll(_, _, _)
RUnlatchAll(lt, ids, i) ==
  IF i > Len(ids) THEN lt ELSE RUnlatchAll([lt EXCEPT ![ids[i]] = RUnlatch(@)], ids, i + 1)

\* the read latches a thread holds: its Context and the root_guard of Begin()
ReadGuards(c) == c.read_set \o (IF c.root_guard # INVALID_PAGE_ID THEN <<c.root_guard>> ELSE <<>>)

\* the call returns: its Context and guards are destroyed
Returned(c, ret) ==
  [c EXCEPT !.pc = "idle", !.ret = ret, !.root = INVALID_PAGE_ID, !.read_set = <<>>,
            !.root_guard = INVALID_PAGE_ID, !.new_page_id = INVALID_PAGE_ID]

\* Thread t changed key under the header latch: the GetValue calls on the key that
\* are under way have seen a writer, the Remove calls between their IsEmpty and
\* their header latch have been overtaken.
Overtaken(ths, t, key) ==
  [u \in Threads |->
     IF u = t \/ ths[u].pc = "idle" THEN ths[u]
     ELSE IF ths[u].op = "get" /\ ths[u].key = key THEN [ths[u] EXCEPT !.touched = TRUE]
     ELSE IF ths[u].op = "remove" /\ ths[u].pc = "header" THEN [ths[u] EXCEPT !.raced = TRUE]
     ELSE ths[u]]

\* A thread enters Insert(key, RID(key)), Remove(key), GetValue(key), Begin() or IsEmpty().
ConcCall(t, op, key) ==
  /\ threads[t].pc = "idle"
  /\ threads[t].calls < (IF t \in Writers THEN MaxCalls ELSE MaxReaderCalls)
  /\ threads' = [threads EXCEPT ![t] =
                   [NoCall EXCEPT !.op = op, !.key = key,
                                  !.pc = IF op = "insert" THEN "header" ELSE "isempty",
                                  !.was = IF key \in ConcKeys THEN ref[key] ELSE NoValue,
                                  !.calls = threads[t].calls + 1]]
  /\ UNCHANGED <<pages, root_page_id, next_page_id, ref, page_latch>>
  /\ UNCHANGED concOthers

\* BPlusTree::IsEmpty, called by IsEmpty(), Remove, FindLeafRead and Begin: the
\* header page and the root page are read-latched and released.
ConcIsEmpty(t) ==
  /\ threads[t].pc = "isempty"
  /\ CanRLatch(page_latch[HEADER_PAGE_ID])
  /\ CanRLatch(page_latch[root_page_id])
  /\ LET c == threads[t]
         empty == IsEmpty(pages, root_page_id)
     IN /\ threads' = [threads EXCEPT ![t] =
                         IF c.op = "isempty" THEN Returned(c, IF empty THEN 1 ELSE 0)
                         ELSE IF ~empty
                         THEN [c EXCEPT !.pc = IF c.op = "remove" THEN "header" ELSE "getroot"]
                         ELSE IF c.op = "remove" THEN Returned(c, 1)
                         ELSE IF c.op = "get" THEN Returned(c, NoValue)
                         ELSE Returned(c, INVALID_PAGE_ID)]
        /\ page_latch' = IF empty THEN RUnlatchAll(page_latch, ReadGuards(c), 1) ELSE page_latch
        /\ ref' = IF empty /\ c.op = "remove" THEN [ref EXCEPT ![c.key] = NoValue] ELSE ref
  /\ UNCHANGED <<pages, root_page_id, next_page_id>>
  /\ UNCHANGED concOthers

\* BPlusTree::GetRootPageId: the header page is read-latched and released.
ConcGetRootPageId(t) ==
  /\ threads[t].pc = "getroot"
  /\ CanRLatch(page_latch[HEADER_PAGE_ID])
  /\ threads' = [threads EXCEPT ![t] = [@ EXCEPT !.root = root_page_id, !.pc = "latch"]]
  /\ UNCHANGED <<pages, root_page_id, next_page_id, ref, page_latch>>
  /\ UNCHANGED concOthers

\* bpm_->FetchPageRead of the next page and the look at it: the root_guard of
\* Begin() (lines 604-612), or a page of the descent of FindLeafRead (lines 83-131).
ConcFetchPageRead(t) ==
  /\ threads[t].pc = "latch"
  /\ CanRLatch(page_latch[threads[t].root])
  /\ LET c == threads[t]
         p == c.root
         page == pages[p]
         opt == ReadLeaf(page, c.key)
     IN IF c.op = "begin" /\ c.root_guard = INVALID_PAGE_ID
        THEN IF IsLeafPage(page)
             THEN /\ threads' = [threads EXCEPT ![t] = Returned(c, p)]
                  /\ page_latch' = page_latch
             ELSE /\ threads' = [threads EXCEPT ![t] =
                                   [c EXCEPT !.root_guard = p, !.key = KeyAt(page, 0), !.pc = "isempty"]]
                  /\ page_latch' = [page_latch EXCEPT ![p] = RLatch(@)]
        ELSE IF IsLeafPage(page)
             THEN /\ threads' = [threads EXCEPT ![t] =
                                   Returned(c, IF c.op = "get"
                                               THEN (IF opt[1] THEN ValueAt(page, opt[2]) ELSE NoValue)
                                               ELSE (IF opt[1] THEN p ELSE INVALID_PAGE_ID))]
                  /\ page_latch' = RUnlatchAll(page_latch, ReadGuards(c), 1)
             ELSE /\ threads' = [threads EXCEPT ![t] =
                                   [c EXCEPT !.read_set = Append(@, p), !.root = ReadChild(page, c.key)]]
                  /\ page_latch' = [page_latch EXCEPT ![p] = RLatch(@)]
  /\ UNCHANGED <<pages, root_page_id, next_page_id, ref>>
  /\ UNCHANGED concOthers

\* an Insert or Remove that goes on without the header page's write latch
HeaderWriteSkipped(lt) == TRUE

\* header_guard = bpm_->FetchPageWrite(header_page_id_) is granted (lines 334, 574)
HeaderWriteGranted(lt) == CanWLatch(lt[HEADER_PAGE_ID])

\* bpm_->FetchPageWrite(header_page_id_) of Insert (line 334) and Remove (line 574)
ConcFetchHeaderWrite(t) ==
  /\ threads[t].pc = "header"
  /\ HeaderWriteGranted(page_latch)
  /\ threads[t].op = "insert" => next_page_id + Height(pages, root_page_id) <= MaxPages
  /\ threads' = [threads EXCEPT ![t] = [@ EXCEPT !.pc = "dfs"]]
  /\ page_latch' = [page_latch EXCEPT ![HEADER_PAGE_ID] = WLatch(@)]
  /\ UNCHANGED <<pages, root_page_id, next_page_id, ref>>
  /\ UNCHANGED concOthers

\* Insert from its DfsInsert to the return or to the making of a new root (lines 339-343, 375)
ConcDfsInsert(t) ==
  /\ threads[t].pc = "dfs"
  /\ threads[t].op = "insert"
  /\ \E r \in {DfsInsert(pages, next_page_id, leaf_max_size, internal_max_size, root_page_id,
                         threads[t].key, threads[t].key, INVALID_PAGE_ID)} :
       /\ \A p \in r.latched : CanWLatch(page_latch[p])
       /\ pages' = r.ps
       /\ next_page_id' = r.nxt
       /\ ref' = IF ref[threads[t].key] = NoValue THEN [ref EXCEPT ![threads[t].key] = threads[t].key] ELSE ref
       /\ threads' = [Overtaken(threads, t, threads[t].key) EXCEPT ![t] =
                        IF r.ok /\ r.splited
                        THEN [@ EXCEPT !.pc = "root", !.new_page_id = r.new_page_id, !.ret = 1,
                                       !.ref_ret = IF ref[threads[t].key] = NoValue THEN 1 ELSE 0]
                        ELSE [Returned(@, IF r.ok THEN 1 ELSE 0) EXCEPT
                                       !.ref_ret = IF ref[threads[t].key] = NoValue THEN 1 ELSE 0]]
       /\ page_latch' = IF r.ok /\ r.splited THEN page_latch
                        ELSE [page_latch EXCEPT ![HEADER_PAGE_ID] = WUnlatch(@)]
  /\ UNCHANGED root_page_id
  /\ UNCHANGED concOthers

\* Insert after a split of the root: the new root and root_page_id_ (lines 344-372)
ConcNewRoot(t) ==
  /\ threads[t].pc = "root"
  /\ CanWLatch(page_latch[root_page_id])
  /\ CanWLatch(page_latch[threads[t].new_page_id])
  /\ \E out \in {TreeInsertAfter([ps |-> pages, nxt |-> next_page_id, ok |-> TRUE, splited |-> TRUE,
                                  new_page_id |-> threads[t].new_page_id, pre_key |-> 0, latched |-> {}],
                                 root_page_id, internal_max_size)} :
       /\ pages' = out.ps
       /\ next_page_id' = out.nxt
       /\ root_page_id' = out.root
  /\ threads' = [threads EXCEPT ![t] = Returned(@, 1)]
  /\ page_latch' = [page_latch EXCEPT ![HEADER_PAGE_ID] = WUnlatch(@)]
  /\ UNCHANGED ref
  /\ UNCHANGED concOthers

\* Remove under the header latch: DfsRemove and the root's replacement (lines 576-585)
ConcDfsRemove(t) ==
  /\ threads[t].pc = "dfs"
  /\ threads[t].op = "remove"
  /\ \E r \in {RemoveLatched(pages, root_page_id, threads[t].key)} :
       /\ \A p \in r.latched : CanWLatch(page_latch[p])
       /\ pages' = r.ps
       /\ root_page_id' = r.root
  /\ ref' = [ref EXCEPT ![threads[t].key] = NoValue]
  /\ threads' = [Overtaken(threads, t, threads[t].key) EXCEPT ![t] = Returned(@, 1)]
  /\ page_latch' = [page_latch EXCEPT ![HEADER_PAGE_ID] = WUnlatch(@)]
  /\ UNCHANGED next_page_id
  /\ UNCHANGED concOthers

ConcNext ==
  \/ \E t \in Writers : \E k \in ConcKeys : ConcCall(t, "insert", k)
  \/ \E t \in Writers : \E k \in ConcKeys : ConcCall(t, "remove", k)
  \/ \E t \in Readers : \E k \in ConcKeys : ConcCall(t, "get", k)
  \/ \E t \in Readers : ConcCall(t, "begin", 0)
  \/ \E t \in Readers : ConcCall(t, "isempty", 0)
  \/ \E t \in Threads : ConcIsEmpty(t)
  \/ \E t \in Threads : ConcGetRootPageId(t)
  \/ \E t \in Threads : ConcFetchPageRead(t)
  \/ \E t \in Threads : ConcFetchHeaderWrite(t)
  \/ \E t \in Threads : ConcDfsInsert(t)
  \/ \E t \in Threads : ConcNewRoot(t)
  \/ \E t \in Threads : ConcDfsRemove(t)

\* ------------------------------------------------------------------------
\* Caller threads of the buffer pool manager and its mutex latch_
\* ------------------------------------------------------------------------
Callers == 1..NumCallers
BpmOps == {"NewPage", "FetchPage", "UnpinPage", "FlushPage", "FlushAllPages", "DeletePage"}
NoCaller == [op |-> "none", pc |-> "idle"]

MutexIdle ==
  /\ latch_ = 0
  /\ callers = <<>>

MutexInit ==
  /\ latch_ = 0
  /\ callers = [t \in Callers |-> NoCaller]

\* The operation's first statement constructs a lock on latch_: every operation of
\* the main pool; every operation of the p1 pool but FlushPage, whose body starts
\* with the page_table_ lookup
TakesLatch(impl, op) == impl = "main" \/ op # "FlushPage"

\* A thread calls the operation and stands before its first statement
CallerEnter(t, op) ==
  /\ callers[t].pc = "idle"
  /\ callers' = [callers EXCEPT ![t] = [op |-> op, pc |-> "entry"]]
  /\ UNCHANGED latch_
  /\ UNCHANGED mutexOthers

\* std::lock_guard / std::scoped_lock on latch_: blocks while another thread holds it
CallerLock(t) ==
  /\ callers[t].pc = "entry"
  /\ TakesLatch(bpm_impl, callers[t].op)
  /\ latch_ = 0
  /\ latch_' = t
  /\ callers' = [callers EXCEPT ![t].pc = "body"]
  /\ UNCHANGED mutexOthers

\* No lock in the operation: the thread goes on to read page_table_ and the frame
CallerNoLock(t) ==
  /\ callers[t].pc = "entry"
  /\ ~TakesLatch(bpm_impl, callers[t].op)
  /\ callers' = [callers EXCEPT ![t].pc = "body"]
  /\ UNCHANGED latch_
  /\ UNCHANGED mutexOthers

\* The operation returns; the lock object's destructor releases latch_ if it was taken.
\* p1 FlushAllPages calls FlushPage for every frame inside its body, under its own lock
CallerReturn(t) ==
  /\ callers[t].pc = "body"
  /\ latch_' = IF latch_ = t THEN 0 ELSE latch_
  /\ callers' = [callers EXCEPT ![t] = NoCaller]
  /\ UNCHANGED mutexOthers

MutexNext ==
  \/ \E t \in Callers : \E op \in BpmOps : CallerEnter(t, op)
  \/ \E t \in Callers : CallerLock(t)
  \/ \E t \in Callers : CallerNoLock(t)
  \/ \E t \in Callers : CallerReturn(t)

\* ------------------------------------------------------------------------
\* The page guards of the tree's calls and of its iterators: pins and latches
\* ------------------------------------------------------------------------
\* One thread calls the tree.  Every call is the sequence of the guards it
\* constructs (FetchPageRead, FetchPageWrite, FetchPageBasic, NewPageGuarded) and
\* destroys, in program order; an iterator keeps its guard_ between calls.
Iterators == 1..NumIterators
PinKeys == 1..MaxPinKey

\* a guard event: <<"fetch" or "drop", kind of guard, page id>>
Fetch(kind, p) == <<"fetch", kind, p>>
Drop(kind, p) == <<"drop", kind, p>>

\* a guard that is a local of a scope: constructed, the rest of the scope, destroyed
Within(kind, p, body) == <<Fetch(kind, p)>> \o body \o <<Drop(kind, p)>>

\* BufferPoolManager::UnpinPage on the pin count (buffer_pool_manager.cpp lines 114-138)
Unpinned(pin, p) == IF pin[p] <= 0 THEN pin ELSE [pin EXCEPT ![p] = @ - 1]

\* One guard event on [pin, latch, stuck]: the factories of buffer_pool_manager.cpp
\* (lines 200-214) pin the page and latch it, the Drop of page_guard.cpp (lines 19-25,
\* 66-73, 92-99) unlatches and unpins; stuck when the latch asked for is never granted
GuardEvent(l, e) ==
  LET kind == e[2]
      p == e[3]
  IN IF l.stuck THEN l
     ELSE IF e[1] = "fetch"
     THEN IF kind = "read" /\ ~CanRLatch(l.latch[p]) THEN [l EXCEPT !.stuck = TRUE]
          ELSE IF kind = "write" /\ ~CanWLatch(l.latch[p]) THEN [l EXCEPT !.stuck = TRUE]
          ELSE [l EXCEPT !.pin[p] = @ + 1,
                         !.latch[p] = IF kind = "read" THEN RLatch(@)
                                      ELSE IF kind = "write" THEN WLatch(@) ELSE @]
     ELSE [l EXCEPT !.pin = Unpinned(l.pin, p),
                    !.latch[p] = IF kind = "read" THEN RUnlatch(@)
                                 ELSE IF kind = "write" THEN WUnlatch(@) ELSE @]

RECURSIVE RunGuards(_, _, _)
RunGuards(l, events, i) ==
  IF i > Len(events) THEN l ELSE RunGuards(GuardEvent(l, events[i]), events, i + 1)

RECURSIVE SetToSeq(_)
SetToSeq(S) == IF S = {} THEN <<>> ELSE LET x == CHOOSE y \in S : TRUE IN <<x>> \o SetToSeq(S \ {x})

\* ctx->read_set_.push_back(FetchPageRead(..)) for every page of the descent
RECURSIVE FetchAll(_, _, _)
FetchAll(kind, ids, i) == IF i > Len(ids) THEN <<>> ELSE <<Fetch(kind, ids[i])>> \o FetchAll(kind, ids, i + 1)

\* ~Context: every guard of read_set_ is destroyed
RECURSIVE DropAll(_, _, _)
DropAll(kind, ids, i) == IF i > Len(ids) THEN <<>> ELSE <<Drop(kind, ids[i])>> \o DropAll(kind, ids, i + 1)

\* root_guard = FetchPageWrite(..) of DfsInsert / DfsRemove at every level, and the
\* son and sibling guards below it
RECURSIVE NestWrite(_, _, _)
NestWrite(ids, i, body) ==
  IF i > Len(ids) THEN body ELSE Within("write", ids[i], NestWrite(ids, i + 1, body))

\* get_new_guard = NewPageGuarded(&new_page_id); new_guard = FetchPageWrite(new_page_id)
\* (lines 223-224, 300-301)
RECURSIVE NestNew(_, _)
NestNew(ids, i) ==
  IF i > Len(ids) THEN <<>>
  ELSE Within("basic", ids[i], Within("write", ids[i], NestNew(ids, i + 1)))

\* BPlusTree::BPlusTree (lines 25-30): the NewPageGuarded guard is a temporary
CtorGuards(root) ==
  Within("write", HEADER_PAGE_ID, Within("basic", root, <<>>) \o Within("write", root, <<>>))

\* BPlusTree::IsEmpty (lines 47-50): the root's guard is a temporary
IsEmptyGuards(root) == Within("read", HEADER_PAGE_ID, Within("read", root, <<>>))

\* BPlusTree::GetRootPageId (lines 655-657)
GetRootPageIdGuards == Within("read", HEADER_PAGE_ID, <<>>)

\* BPlusTree::FindLeafRead (lines 78-131): its guards stay in the caller's Context
FindLeafReadGuards(ps, root, key) ==
  IsEmptyGuards(root) \o
  (IF IsEmpty(ps, root) THEN <<>>
   ELSE GetRootPageIdGuards \o FetchAll("read", FindLeafRead(ps, root, key).read_set, 1))

\* the Context of a FindLeafRead goes out of scope
ContextGuards(ps, root, key) == DropAll("read", FindLeafRead(ps, root, key).read_set, 1)

\* BPlusTree::GetValue (lines 62-73)
GetValueGuards(ps, root, key) == FindLeafReadGuards(ps, root, key) \o ContextGuards(ps, root, key)

\* BPlusTree::Insert (lines 334-375) with its DfsInsert (lines 211-322)
InsertGuards(ps, nxt, root, lmax, imax, key, value) ==
  LET r == DfsInsert(ps, nxt, lmax, imax, root, key, value, INVALID_PAGE_ID)
      fresh == {p \in r.latched : p >= nxt}
  IN Within("write", HEADER_PAGE_ID,
            NestWrite(SetToSeq(r.latched \ fresh), 1, NestNew(SetToSeq(fresh), 1)) \o
            (IF r.ok /\ r.splited
             THEN Within("basic", r.nxt, Within("write", root, Within("write", r.new_page_id, <<>>)))
             ELSE <<>>))

\* BPlusTree::Remove (lines 570-585) with its DfsRemove (lines 394-565)
RemoveGuards(ps, root, key) ==
  IsEmptyGuards(root) \o
  (IF IsEmpty(ps, root) THEN <<>>
   ELSE Within("write", HEADER_PAGE_ID,
               NestWrite(SetToSeq(DfsRemove(ps, root, INVALID_PAGE_ID, INVALID_PAGE_ID, key).latched), 1, <<>>) \o
               Within("write", root, <<>>)))

\* IndexIterator::IndexIterator(bpm, page_id, index) (index_iterator.h lines 31-39)
IteratorGuards(it) == IF it[1] = INVALID_PAGE_ID THEN <<>> ELSE <<Fetch("basic", it[1])>>

\* BPlusTree::Begin() (lines 596-619): the iterator over a leaf root is made under
\* root_guard, the other one after root_guard and the Context are gone
BeginGuards(ps, root) ==
  IsEmptyGuards(root) \o
  (IF IsEmpty(ps, root) THEN <<>>
   ELSE GetRootPageIdGuards \o
        Within("read", root,
               IF IsLeafPage(ps[root]) THEN IteratorGuards(Begin(ps, root))
               ELSE FindLeafReadGuards(ps, root, KeyAt(ps[root], 0)) \o
                    ContextGuards(ps, root, KeyAt(ps[root], 0))) \o
        (IF IsLeafPage(ps[root]) THEN <<>> ELSE IteratorGuards(Begin(ps, root))))

\* BPlusTree::Begin(key) (lines 627-640): the iterator is made before the Context goes
BeginAtGuards(ps, root, key) ==
  IsEmptyGuards(root) \o
  (IF IsEmpty(ps, root) THEN <<>>
   ELSE FindLeafReadGuards(ps, root, key) \o IteratorGuards(BeginAt(ps, root, key)) \o
        ContextGuards(ps, root, key))

\* operator++ that leaves guard_ alone when the scan ends
IteratorNextKeepsGuard(ps, it) ==
  IF it[1] = INVALID_PAGE_ID \/ it[2] + 1 # GetSize(ps[it[1]]) THEN <<>>
  ELSE IF ps[it[1]].next = INVALID_PAGE_ID THEN <<>>
  ELSE <<Fetch("basic", ps[it[1]].next), Drop("basic", it[1])>>

\* IndexIterator::operator++ (index_iterator.cpp lines 31-50): guard_ = nullptr at the
\* end of the last leaf; at the end of another leaf the next leaf's guard is made,
\* then the assignment destroys the old one
IteratorNextGuards(ps, it) ==
  IF it[1] = INVALID_PAGE_ID \/ it[2] + 1 # GetSize(ps[it[1]]) THEN <<>>
  ELSE IF ps[it[1]].next = INVALID_PAGE_ID THEN <<Drop("basic", it[1])>>
  ELSE <<Fetch("basic", ps[it[1]].next), Drop("basic", it[1])>>

\* ~IndexIterator (index_iterator.cpp line 19): guard_ is released
IteratorDtorGuards(it) == IF it[1] = INVALID_PAGE_ID THEN <<>> ELSE <<Drop("basic", it[1])>>

PinIdle ==
  /\ pin_count = <<>>
  /\ iters = <<>>

\* the state after the constructor; no iterator exists
PinInit ==
  /\ TreeInit
  /\ threads = <<>>
  /\ iters = [i \in Iterators |-> End]
  /\ \E l \in {RunGuards([pin |-> [p \in LatchIds |-> 0], latch |-> [p \in LatchIds |-> FreeLatch],
                          stuck |-> FALSE], CtorGuards(1), 1)} :
       /\ ~l.stuck
       /\ pin_count = l.pin
       /\ page_latch = l.latch

\* the guards of a call that returns
Guarded(events) ==
  \E l \in {RunGuards([pin |-> pin_count, latch |-> page_latch, stuck |-> FALSE], events, 1)} :
    /\ ~l.stuck
    /\ pin_count' = l.pin
    /\ page_latch' = l.latch

PinInsert(k, v) ==
  /\ next_page_id + Height(pages, root_page_id) <= MaxPinPages
  /\ \E r \in {TreeInsert(pages, next_page_id, root_page_id, leaf_max_size, internal_max_size, k, v)} :
       /\ pages' = r.ps
       /\ next_page_id' = r.nxt
       /\ root_page_id' = r.root
       /\ last' = [op |-> "insert", ret |-> TRUE, ref_ret |-> TRUE]
  /\ ref' = IF ref[k] = NoValue THEN [ref EXCEPT ![k] = v] ELSE ref
  /\ Guarded(InsertGuards(pages, next_page_id, root_page_id, leaf_max_size, internal_max_size, k, v))
  /\ UNCHANGED iters
  /\ UNCHANGED pinOthers

PinRemove(k) ==
  /\ \E r \in {TreeRemove(pages, root_page_id, k)} :
       /\ pages' = r.ps
       /\ root_page_id' = r.root
  /\ ref' = [ref EXCEPT ![k] = NoValue]
  /\ last' = [op |-> "remove", ret |-> TRUE, ref_ret |-> TRUE]
  /\ Guarded(RemoveGuards(pages, root_page_id, k))
  /\ UNCHANGED <<next_page_id, iters>>
  /\ UNCHANGED pinOthers

PinGetValue(k) ==
  /\ last' = [op |-> "get", ret |-> TRUE, ref_ret |-> TRUE]
  /\ Guarded(GetValueGuards(pages, root_page_id, k))
  /\ UNCHANGED <<pages, root_page_id, next_page_id, ref, iters>>
  /\ UNCHANGED pinOthers

PinIsEmpty ==
  /\ last' = [op |-> "isempty", ret |-> TRUE, ref_ret |-> TRUE]
  /\ Guarded(IsEmptyGuards(root_page_id))
  /\ UNCHANGED <<pages, root_page_id, next_page_id, ref, iters>>
  /\ UNCHANGED pinOthers

PinGetRootPageId ==
  /\ last' = [op |-> "getroot", ret |-> TRUE, ref_ret |-> TRUE]
  /\ Guarded(GetRootPageIdGuards)
  /\ UNCHANGED <<pages, root_page_id, next_page_id, ref, iters>>
  /\ UNCHANGED pinOthers

\* it = tree.Begin() into an iterator variable that holds no guard
PinBegin(i) ==
  /\ iters[i] = End
  /\ iters' = [iters EXCEPT ![i] = Begin(pages, root_page_id)]
  /\ last' = [op |-> "begin", ret |-> TRUE, ref_ret |-> TRUE]
  /\ Guarded(BeginGuards(pages, root_page_id))
  /\ UNCHANGED <<pages, root_page_id, next_page_id, ref>>
  /\ UNCHANGED pinOthers

\* it = tree.Begin(key)
PinBeginAt(i, k) ==
  /\ iters[i] = End
  /\ iters' = [iters EXCEPT ![i] = BeginAt(pages, root_page_id, k)]
  /\ last' = [op |-> "begin", ret |-> TRUE, ref_ret |-> TRUE]
  /\ Guarded(BeginAtGuards(pages, root_page_id, k))
  /\ UNCHANGED <<pages, root_page_id, next_page_id, ref>>
  /\ UNCHANGED pinOthers

\* ++it on an iterator that is not at End()
PinIteratorNext(i) ==
  /\ iters[i] # End
  /\ iters[i][2] < MaxIndex
  /\ iters' = [iters EXCEPT ![i] = IteratorNext(pages, iters[i])]
  /\ last' = [op |-> "next", ret |-> TRUE, ref_ret |-> TRUE]
  /\ Guarded(IteratorNextGuards(pages, iters[i]))
  /\ UNCHANGED <<pages, root_page_id, next_page_id, ref>>
  /\ UNCHANGED pinOthers

\* the iterator is destroyed before it reached End()
PinIteratorDestroy(i) ==
  /\ iters[i] # End
  /\ iters' = [iters EXCEPT ![i] = End]
  /\ last' = [op |-> "destroy", ret |-> TRUE, ref_ret |-> TRUE]
  /\ Guarded(IteratorDtorGuards(iters[i]))
  /\ UNCHANGED <<pages, root_page_id, next_page_id, ref>>
  /\ UNCHANGED pinOthers

PinNext ==
  \/ \E k \in PinKeys : \E v \in ValuesOf(k) : PinInsert(k, v)
  \/ \E k \in PinKeys : PinRemove(k)
  \/ \E k \in PinKeys : PinGetValue(k)
  \/ PinIsEmpty
  \/ PinGetRootPageId
  \/ \E i \in Iterators : PinBegin(i)
  \/ \E i \in Iterators : \E k \in PinKeys : PinBeginAt(i, k)
  \/ \E i \in Iterators : PinIteratorNext(i)
  \/ \E i \in Iterators : PinIteratorDestroy(i)

\* ------------------------------------------------------------------------
\* Specifications
\* ------------------------------------------------------------------------
InitTree == TreeInit /\ LruIdle /\ BpmIdle /\ GuardIdle /\ ConcIdle /\ MutexIdle /\ PinIdle
SpecTree == InitTree /\ [][TreeNext]_vars

InitTreeWide == WideInit /\ LruIdle /\ BpmIdle /\ GuardIdle /\ ConcIdle /\ MutexIdle /\ PinIdle
SpecTreeWide == InitTreeWide /\ [][WideNext]_vars

InitLru == LruInit /\ TreeIdle /\ BpmIdle /\ GuardIdle /\ ConcIdle /\ MutexIdle /\ PinIdle
SpecLru == InitLru /\ [][LruNext]_vars

InitLruScript == ScriptInit /\ TreeIdle /\ BpmIdle /\ GuardIdle /\ ConcIdle /\ MutexIdle /\ PinIdle
SpecLruScript == InitLruScript /\ [][ScriptNext]_vars

InitBpm == BpmInit /\ TreeIdle /\ LruIdle /\ GuardIdle /\ ConcIdle /\ MutexIdle /\ PinIdle
SpecBpm == InitBpm /\ [][BpmNext]_vars

InitGuard == BpmInit /\ GuardInit /\ TreeIdle /\ LruIdle /\ ConcIdle /\ MutexIdle /\ PinIdle
SpecGuard == InitGuard /\ [][GuardNext]_vars
SpecGuardDirty == InitGuard /\ [][GuardDirtyNext]_vars

InitReopen == TreeInit /\ LruIdle /\ BpmIdle /\ GuardIdle /\ ConcIdle /\ MutexIdle /\ PinIdle
SpecReopen == InitReopen /\ [][ReopenNext]_vars

InitConc == ConcInit /\ LruIdle /\ BpmIdle /\ GuardIdle /\ MutexIdle /\ PinIdle
SpecConc == InitConc /\ [][ConcNext]_vars

InitMutex == BpmInit /\ MutexInit /\ TreeIdle /\ LruIdle /\ GuardIdle /\ ConcIdle /\ PinIdle
SpecMutex == InitMutex /\ [][MutexNext]_vars

InitPin == PinInit /\ LruIdle /\ BpmIdle /\ GuardIdle /\ MutexIdle
SpecPin == InitPin /\ [][PinNext]_vars

\* ------------------------------------------------------------------------
\* Properties
\* ------------------------------------------------------------------------
\* the keys of the reference map from k up, ascending
RECURSIVE RefKeysFrom(_, _)
RefKeysFrom(m, k) ==
  IF k > MaxKey THEN <<>>
  ELSE (IF m[k] # NoValue THEN <<k>> ELSE <<>>) \o RefKeysFrom(m, k + 1)

\* C1: after any sequence of Insert and Remove calls the tree holds exactly the
\* pairs of the reference map (insert if absent, delete): GetValue(k) finds the
\* map's value for a key the map holds and nothing for any other key, and the call
\* just made returned what the map's operation returned (Insert: true iff the key
\* was absent).
C1_TreeIsTheReferenceMap ==
  /\ \A k \in Keys : GetValue(pages, root_page_id, k) = ref[k]
  /\ last.ret = last.ref_ret

\* C1, its case: a duplicate Insert refused on a tree whose root is an internal page
C1_Witness ==
  /\ last.op = "insert" /\ ~last.ret
  /\ ~IsLeafPage(pages[root_page_id])

\* C2: a scan from Begin() to End() yields every key of the tree once, ascending,
\* across the leaves; a scan from Begin(k), k in the tree, yields the keys >= k.
C2_ScanIsSortedAndComplete ==
  /\ Scan(pages, Begin(pages, root_page_id), ScanFuel) = RefKeysFrom(ref, 1)
  /\ \A k \in Keys : ref[k] # NoValue =>
       Scan(pages, BeginAt(pages, root_page_id, k), ScanFuel) = RefKeysFrom(ref, k)

\* C2, its case: after a Remove, a scan of three keys that crosses from one leaf into the next
C2_Witness ==
  /\ ~IsLeafPage(pages[root_page_id])
  /\ Len(Scan(pages, Begin(pages, root_page_id), ScanFuel)) = MaxKey - 1
  /\ last.op = "remove"

\* the frames in the free list
FreeFrames == {bpm.free_list[i] : i \in DOMAIN bpm.free_list}

\* C3: while a caller holds a pin on page p, p stays in its frame, and that frame is
\* pinned, is not in the free list and is not evictable in the replacer (so Evict
\* cannot return it and no NewPage/FetchPage can give it to another page).
C3_PinnedFrameIsKept ==
  \A p \in BpmPageIds : held[p] > 0 =>
    \E f \in FrameIds :
      /\ bpm.pages_[f].page_id = p
      /\ bpm.pages_[f].pin_count > 0
      /\ f \notin FreeFrames
      /\ ~(bpm.replacer.node_store[f].present /\ bpm.replacer.node_store[f].is_evictable)

\* FetchPage as the linked implementation runs it
FetchPageNow(page_id) == IF bpm_impl = "main" THEN FetchPage(bpm, page_id) ELSE P1FetchPage(bpm, page_id)

C5_NullIffEveryFramePinned ==
  bpm_out.op \in {"new", "fetch"} =>
    /\ ~bpm_out.ok <=> bpm_out.allpinned
    /\ bpm_out.ok => bpm_out.pin = 1

\* C6: Evict returns the frame the reference LRU-K policy selects, and fails exactly
\* when the policy has no evictable frame.
C6_EvictIsTheReferencePolicy ==
  lru_out.op = "evict" =>
    /\ lru_out.frame_id = lru_out.ref_frame_id
    /\ lru_out.ok <=> lru_out.ref_frame_id # 0 - 1

\* the live guards that hold page p: page_ points at the frame that holds p
Holders(p) == {s \in GuardSlots : guards[s].alive /\ guards[s].g.page_ # 0 - 1
                                   /\ bpm.pages_[guards[s].g.page_].page_id = p}

\* C7: across move construction, move assignment (onto a guard that holds another
\* page too), self-assignment, Drop and destruction, every guard handed out on a
\* page calls UnpinPage for it exactly once: the guards handed out less the
\* UnpinPage calls made are the guards that still hold the page; and a resident
\* page no guard holds has pin count 0 and an evictable frame.
C7_GuardUnpinsExactlyOnce ==
  \A p \in BpmPageIds :
    /\ owed[p] = Cardinality(Holders(p))
    /\ Holders(p) = {} /\ Resident(bpm, p) # 0 - 1 =>
         /\ bpm.pages_[Resident(bpm, p)].pin_count = 0
         /\ bpm.replacer.node_store[Resident(bpm, p)].is_evictable

\* C7, its case: a move assignment onto a guard that held a page released that page,
\* and no guard is left on it
C7_Witness ==
  /\ guard_out.op = "move_assign"
  /\ \E p \in BpmPageIds : guard_out.released = <<p>> /\ Holders(p) = {} /\ Resident(bpm, p) # 0 - 1

\* the read latches thread t holds, and the write latch it holds on the header page
HoldsR(t) == {ReadGuards(threads[t])[i] : i \in 1..Len(ReadGuards(threads[t]))}
HoldsW(t) == IF threads[t].pc \in {"dfs", "root"} THEN {HEADER_PAGE_ID} ELSE {}

\* the latch the next FetchPageRead / FetchPageWrite of thread t asks for: <<page, mode>>
Wants(t) ==
  IF threads[t].pc \in {"isempty", "getroot"} THEN {<<HEADER_PAGE_ID, "R">>}
  ELSE IF threads[t].pc = "latch" THEN {<<threads[t].root, "R">>}
  ELSE IF threads[t].pc = "header" THEN {<<HEADER_PAGE_ID, "W">>}
  ELSE IF threads[t].pc \in {"dfs", "root"} THEN {<<root_page_id, "W">>}
  ELSE {}

\* thread a cannot go on before thread b releases a latch
WaitsFor(a, b) ==
  \E w \in Wants(a) : \/ w[2] = "W" /\ w[1] \in HoldsR(b) \cup HoldsW(b)
                      \/ w[2] = "R" /\ w[1] \in HoldsW(b)

\* C8: a GetValue(k) that has returned, with k in the tree when it was called and no
\* Insert or Remove of k during the call, has returned k's value.
C8_GetValueFindsAStableKey ==
  \A t \in Readers :
     (threads[t].op = "get" /\ threads[t].pc = "idle" /\ threads[t].was # NoValue /\ ~threads[t].touched)
        => threads[t].ret = threads[t].was

\* C9: whenever no Insert or Remove holds the header page, the tree holds exactly the
\* pairs that the calls leave when they are executed one after the other in the order
\* in which they took effect under the header latch (the reference map): every such
\* key is found by GetValue with its value, a scan lists each key once, and every
\* Insert that has returned reported what it reports in that order.
C9_ConcurrentWritesAreSerial ==
  ~page_latch[HEADER_PAGE_ID].w =>
     /\ \A k \in Keys : GetValue(pages, root_page_id, k) = ref[k]
     /\ Scan(pages, Begin(pages, root_page_id), ScanFuel) = RefKeysFrom(ref, 1)
     /\ \A t \in Writers :
          (threads[t].op = "insert" /\ threads[t].pc = "idle") => threads[t].ret = threads[t].ref_ret

\* every call has returned; a Remove was overtaken by another writer between its
\* IsEmpty and its header latch, an Insert of another thread succeeded, the root was split
C9_Witness ==
  /\ \A t \in Threads : threads[t].pc = "idle"
  /\ ~IsLeafPage(pages[root_page_id])
  /\ \E t \in Writers : \E u \in Writers \ {t} :
        /\ threads[t].op = "remove" /\ threads[t].raced
        /\ threads[u].op = "insert" /\ threads[u].ret = 1

\* C10: no two threads wait for each other's latches.
C10_NoCyclicWait ==
  \A a \in Threads : \A b \in Threads \ {a} : ~(WaitsFor(a, b) /\ WaitsFor(b, a))

\* C11: after the tree is closed and reopened, GetValue answers for every key what
\* it answered before the tree was closed.
C11_ReopenKeepsAnswers ==
  last.op = "reopen" => \A k \in Keys : GetValue(pages, root_page_id, k) = last.ret[k]

\* C12: an Insert of a key the tree holds returns false and changes no page, not the
\* header's root_page_id and allocates no page (so GetValue still returns the old value).
C12_DuplicateInsertChangesNothing ==
  [][(last'.op = "insert" /\ ~last'.ref_ret)
       => (~last'.ret /\ pages' = pages /\ root_page_id' = root_page_id
           /\ next_page_id' = next_page_id)]_vars

\* a refused Insert into a tree whose root is an internal page
C12_Witness ==
  /\ last.op = "insert" /\ ~last.ref_ret /\ ~last.ret
  /\ Height(pages, root_page_id) = 2

\* the entries of a page: array_[0 .. size - 1]
Entries(p) == [i \in 1..GetSize(p) |-> At(p, i - 1)]

\* C13: a Remove of a key the tree does not hold leaves the root where it is and
\* leaves every leaf with the entries and the next_page_id_ it had (no borrow, no merge).
C13_AbsentRemoveKeepsStructure ==
  [][(last'.op = "remove" /\ ref' = ref)
       => /\ root_page_id' = root_page_id
          /\ \A p \in PageIds : IsLeafPage(pages[p]) =>
                 (Entries(pages'[p]) = Entries(pages[p]) /\ pages'[p].next = pages[p].next)]_vars

\* the number of times frame f is in the free list
FreeCount(b, f) == Cardinality({i \in 1..Len(b.free_list) : b.free_list[i] = f})

\* C14: a DeletePage(p) that returns true on a resident, unpinned page p leaves p
\* not resident: its frame is in the free list exactly once with page id INVALID,
\* pin count 0 and dirty flag false, the replacer no longer tracks it, and a
\* following FetchPage(p) takes the miss path.
C14_DeletePageFreesTheFrame ==
  [][(/\ bpm_out'.op = "delete"
      /\ bpm_out'.ok
      /\ Resident(bpm, bpm_out'.page_id) # 0 - 1)
     => LET p == bpm_out'.page_id
            f == Resident(bpm, p)
        IN /\ Resident(bpm', p) = 0 - 1
           /\ FreeCount(bpm', f) = 1
           /\ bpm'.pages_[f].page_id = INVALID_PAGE_ID
           /\ bpm'.pages_[f].pin_count = 0
           /\ ~bpm'.pages_[f].is_dirty
           /\ ~bpm'.replacer.node_store[f].present
           /\ ~(IF bpm_impl = "main" THEN FetchPage(bpm', p) ELSE P1FetchPage(bpm', p)).hit]_vars

\* C15: DeletePage(p) returns true and changes nothing when p is not resident, and
\* returns false and changes nothing when p is resident with pin count > 0; a
\* DeletePage(p) that directly follows a DeletePage(p) leaves the state the first
\* call left.
C15_DeletePageNoOpCases ==
  [][bpm_out'.op = "delete"
     => LET p == bpm_out'.page_id
            f == Resident(bpm, p)
        IN /\ f = 0 - 1 => (bpm_out'.ok /\ bpm' = bpm)
           /\ (f # 0 - 1 /\ bpm.pages_[f].pin_count > 0) => (~bpm_out'.ok /\ bpm' = bpm)
           /\ (bpm_out.op = "delete" /\ bpm_out.page_id = p) => bpm' = bpm]_vars

\* C16: UnpinPage(p, d) returns false exactly when p is not resident or its pin
\* count is already 0, and then changes nothing (pin count, dirty flag, replacer);
\* otherwise it lowers the pin count by exactly 1 and the frame is evictable
\* afterwards exactly when the count has reached 0.
C16_UnpinPageContract ==
  [][bpm_out'.op = "unpin"
     => LET p == bpm_out'.page_id
            f == Resident(bpm, p)
        IN /\ ~bpm_out'.ok <=> (f = 0 - 1 \/ bpm.pages_[f].pin_count = 0)
           /\ ~bpm_out'.ok => bpm' = bpm
           /\ bpm_out'.ok =>
                /\ bpm'.pages_[f].pin_count = bpm.pages_[f].pin_count - 1
                /\ bpm'.replacer.node_store[f].is_evictable <=> bpm'.pages_[f].pin_count = 0]_vars

\* C16, its case: UnpinPage has returned false on a resident page whose pin count is
\* 0 and whose dirty flag is clear
C16_Witness ==
  /\ bpm_out.op = "unpin"
  /\ ~bpm_out.ok
  /\ Resident(bpm, bpm_out.page_id) # 0 - 1
  /\ bpm.pages_[Resident(bpm, bpm_out.page_id)].pin_count = 0
  /\ ~bpm.pages_[Resident(bpm, bpm_out.page_id)].is_dirty

\* C17: FlushPage(p) returns false and writes nothing to disk whenever p is
\* INVALID_PAGE_ID or p is not resident, also while frames are free or were freed by
\* DeletePage.
C17_FlushPageOfNoPage ==
  [][(/\ bpm_out'.op = "flush"
      /\ (bpm_out'.page_id = INVALID_PAGE_ID \/ Resident(bpm, bpm_out'.page_id) = 0 - 1))
     => (~bpm_out'.ok /\ bpm' = bpm)]_vars

\* Drop() of guard g of the given kind changes neither the pool nor a latch nor g
DropChangesNothing(kind, b, lt, g) ==
  \A ub \in BOOLEAN :
    LET d == GuardDropOf(bpm_impl, kind, b, lt, g, ub)
    IN d.b = b /\ d.latch = lt /\ d.g = g /\ d.unpinned = <<>>

\* C18: where FetchPage / NewPage fails, FetchPageBasic, FetchPageRead,
\* FetchPageWrite and NewPageGuarded return a null guard without acquiring a latch
\* or touching a page that does not exist, and dropping that guard changes nothing.
C18_FailedFetchGivesNullGuard ==
  [][/\ guard_out'.op # "fault"
     /\ \A s \in GuardSlots :
          (~guards[s].alive /\ guards'[s].alive /\ guards'[s].g.page_ = 0 - 1)
          => /\ latch' = latch
             /\ bpm' = bpm
             /\ DropChangesNothing(guards'[s].kind, bpm', latch', guards'[s].g)]_vars

\* C19: Drop() of a guard that holds a page releases exactly the latch the guard
\* acquired: a ReadPageGuard one shared hold, a WritePageGuard the exclusive hold,
\* and a BasicPageGuard leaves the page latch as it was.
C19_DropReleasesItsOwnLatch ==
  [][guard_out'.op = "drop"
     => \A s \in GuardSlots :
          (guards[s].g.bpm_ /\ guards[s].g.page_ # 0 - 1 /\ guards'[s].g.page_ = 0 - 1)
          => LET f == guards[s].g.page_
             IN latch' = [latch EXCEPT ![f] = IF guards[s].kind = "read" THEN RUnlatch(@)
                                              ELSE IF guards[s].kind = "write" THEN WUnlatch(@)
                                              ELSE @]]_vars

\* the guard of slot s gave its page to the guard of slot d in this step
MovedInto(d, s) ==
  /\ d # s
  /\ guards[s].g.bpm_ /\ guards[s].g.page_ # 0 - 1
  /\ guards'[s].g.page_ = 0 - 1
  /\ guards'[d] # guards[d]
  /\ guards'[d].g.page_ = guards[s].g.page_

\* C20: the dirty flag of a guard survives a move construction and a move
\* assignment, of a Basic guard and of a Read/Write guard: the destination carries
\* the flag the source had and the moved-from guard unpins nothing; and dropping a
\* guard marked dirty leaves the page's frame dirty (UnpinPage got is_dirty = true).
C20_DirtyFlagSurvivesMoves ==
  [][/\ guard_out'.op \in {"move_construct", "move_assign"}
        => \A d \in GuardSlots, s \in GuardSlots :
             MovedInto(d, s)
             => /\ guards'[d].g.is_dirty_ = guards[s].g.is_dirty_
                /\ DropChangesNothing(guards'[s].kind, bpm', latch', guards'[s].g)
     /\ guard_out'.op \in {"drop", "destroy"}
        => \A s \in GuardSlots :
             (guards[s].g.bpm_ /\ guards[s].g.page_ # 0 - 1 /\ guards'[s].g.page_ = 0 - 1
              /\ guards[s].g.is_dirty_)
             => bpm'.pages_[guards[s].g.page_].is_dirty]_vars

\* the frames a list holds
ListFrames(list) == {list[i] : i \in 1..Len(list)}

\* C23: Remove(f) changes nothing on a frame the replacer does not track; on a
\* tracked frame that is not evictable it raises an error and changes nothing; on a
\* tracked evictable frame, with fewer than k, exactly k or more than k accesses and
\* every k >= 1, it erases f's history, takes f out of the list that holds it and
\* lowers Size() by exactly 1, so that an Evict does not return f.
C23_RemoveContract ==
  [][lru_out'.op \in {"remove", "throw"}
     => LET f == lru_out'.frame_id
            node == replacer.node_store[f]
        IN /\ ~node.present => (lru_out'.op = "remove" /\ replacer' = replacer)
           /\ (node.present /\ ~node.is_evictable) => (lru_out'.op = "throw" /\ replacer' = replacer)
           /\ (node.present /\ node.is_evictable) =>
                /\ lru_out'.op = "remove"
                /\ replacer'.node_store = [replacer.node_store EXCEPT ![f] = NoNode]
                /\ f \notin ListFrames(replacer'.new_frame) \cup ListFrames(replacer'.cache_frame)
                /\ replacer'.new_frame = ListErase(replacer.new_frame, f)
                /\ replacer'.cache_frame = ListErase(replacer.cache_frame, f)
                /\ ReplacerSize(replacer') = ReplacerSize(replacer) - 1
                /\ Evict(replacer').frame_id # f]_vars

\* C23, its case: Remove has taken out a tracked frame that had been accessed more
\* than k times, with k >= 2
C23_Witness ==
  /\ lru_out.op = "remove"
  /\ lru_out.ok
  /\ replacer.k >= 2
  /\ lru_out.accesses > replacer.k
  /\ ~replacer.node_store[lru_out.frame_id].present

\* the script has run: every access is made and every accessed frame is marked
ScriptDone ==
  /\ replacer.current_timestamp = Len(AccessScript)
  /\ \A f \in ListFrames(AccessScript) : replacer.node_store[f].is_evictable

\* C26, as stated: with K = 2 and 7 frames, after RecordAccess on 1,2,3,4,5,6,1,2
\* and SetEvictable(true) on every accessed frame, Size() returns 7.
C26_SizeIsSeven == ScriptDone => ReplacerSize(replacer) = 7

\* C26, amended: after that script Size() returns 6, the number of distinct frames
\* accessed and marked evictable.
C26_SizeIsSix == ScriptDone => ReplacerSize(replacer) = 6

\* C26, its case: the script has run
C26_Witness == ScriptDone /\ ReplacerSize(replacer) = Cardinality(ListFrames(AccessScript))

\* C27: after any sequence of NewPage, FetchPage, UnpinPage, FlushPage,
\* FlushAllPages and DeletePage, every frame with pin count > 0 holds a resident page
\* (the lookup of its page id finds the frame), is not in the free list and is not
\* evictable in the replacer.
C27_PinnedFrameIsResident ==
  \A f \in FrameIds :
    bpm.pages_[f].pin_count > 0 =>
      /\ bpm.pages_[f].page_id # INVALID_PAGE_ID
      /\ Resident(bpm, bpm.pages_[f].page_id) = f
      /\ FreeCount(bpm, f) = 0
      /\ ~bpm.replacer.node_store[f].is_evictable

\* C28: after any sequence of BPM operations no frame is in the free list twice, and
\* the number of frames in the free list plus the number of resident pages is
\* pool_size.
C28_FreePlusResidentIsPoolSize ==
  /\ \A f \in FrameIds : FreeCount(bpm, f) <= 1
  /\ Len(bpm.free_list) + Cardinality({p \in BpmPageIds : Resident(bpm, p) # 0 - 1}) = PoolSize

\* C25: the frame a successful NewPage returns holds only zero bytes, whether it
\* came from the free list or from an eviction: nothing of the page that was in the
\* frame before is visible through the new page.
C25_NewPageIsZeroed ==
  [][(bpm_out'.op = "new" /\ bpm_out'.ok)
     => \A f \in FrameIds :
          bpm'.pages_[f].page_id = bpm.next_page_id => bpm'.pages_[f].data = 0]_vars

\* the pages of the subtree below page pid, and the keys its leaves store
RECURSIVE TreePages(_, _)
TreePages(ps, pid) ==
  IF IsLeafPage(ps[pid]) THEN {pid}
  ELSE {pid} \cup UNION {TreePages(ps, ValueAt(ps[pid], i)) : i \in 0..(GetSize(ps[pid]) - 1)}

RECURSIVE SubtreeKeys(_, _)
SubtreeKeys(ps, pid) ==
  IF IsLeafPage(ps[pid]) THEN {KeyAt(ps[pid], i) : i \in 0..(GetSize(ps[pid]) - 1)}
  ELSE UNION {SubtreeKeys(ps, ValueAt(ps[pid], i)) : i \in 0..(GetSize(ps[pid]) - 1)}

\* the pages of the tree; none while the header holds no root
AllTreePages == IF root_page_id = INVALID_PAGE_ID THEN {} ELSE TreePages(pages, root_page_id)

\* C29: after every completed Insert or Remove every tree page q other than the root
\* has min_size <= size <= max_size - 1, with min_size = ceil(max_size / 2), for
\* every leaf_max_size and internal_max_size, also directly after a split or a merge.
C29_NonRootPagesAreHalfFull ==
  \A q \in AllTreePages \ {root_page_id} :
    /\ GetMinSize(pages[q]) <= GetSize(pages[q])
    /\ GetSize(pages[q]) <= GetMaxSize(pages[q]) - 1

LiveOn(f, kind) ==
  {s \in GuardSlots : guards[s].alive /\ guards[s].kind = kind /\ guards[s].g.bpm_ /\ guards[s].g.page_ = f}

\* C21: at every moment and for every page, the live guards obtained through
\* FetchPageRead / FetchPageWrite observe readers-writer exclusion: while a
\* WritePageGuard on the page is live no other Read or Write guard on it is live,
\* in whatever order guards are acquired and dropped; and every page whose latch is
\* held has pin count > 0.
C21_LatchedGuardsExclude ==
  \A f \in FrameIds :
    /\ LiveOn(f, "write") # {} => (Cardinality(LiveOn(f, "write")) = 1 /\ LiveOn(f, "read") = {})
    /\ (latch[f].w \/ latch[f].r > 0) => bpm.pages_[f].pin_count > 0

\* C22: every public operation of the buffer pool manager holds latch_ for its whole
\* duration, so no thread is inside an operation (reading or writing the page table,
\* the free list or the frame metadata) while another thread is inside one
C22_OperationsExcludeEachOther ==
  \A t \in DOMAIN callers : \A u \in DOMAIN callers :
    (t # u /\ callers[t].pc = "body") => callers[u].pc # "body"

\* C24: once the constructor or a call of the tree has returned and every iterator
\* is at End() or destroyed, every page has pin count 0 and no page latch is held
C24_NoGuardIsLeaked ==
  (\A i \in DOMAIN iters : iters[i] = End) =>
    \A p \in DOMAIN pin_count : pin_count[p] = 0 /\ page_latch[p] = FreeLatch

\* an iterator was advanced over the end of the last leaf of a tree of several leaves
C24_Witness ==
  /\ iters # <<>>
  /\ last.op = "next"
  /\ \A i \in DOMAIN iters : iters[i] = End
  /\ ~IsLeafPage(pages[root_page_id])

\* the frames the replacer tracks, and those of them whose evictable flag is set
Tracked(rep) == {f \in DOMAIN rep.node_store : rep.node_store[f].present}
EvictableFrames(rep) == {f \in Tracked(rep) : rep.node_store[f].is_evictable}

\* C31: after any sequence of RecordAccess, SetEvictable, Evict and Remove calls that
\* raise no error, Size() is the number of tracked frames whose evictable flag is
\* true, and Size() <= num_frames
C31_SizeCountsEvictableFrames ==
  ~lru_hung =>
    /\ ReplacerSize(replacer) = Cardinality(EvictableFrames(replacer))
    /\ ReplacerSize(replacer) <= replacer.replacer_size

\* how often frame f is in the list
Occurrences(list, f) == Cardinality({i \in 1..Len(list) : list[i] = f})

C33_RecordAccessTouchesOnlyItsFrame ==
  [][(replacer'.current_timestamp # replacer.current_timestamp /\ ~lru_hung')
     => /\ ReplacerSize(replacer') = ReplacerSize(replacer)
        /\ \A g \in DOMAIN replacer.node_store :
             replacer'.node_store[g].is_evictable = replacer.node_store[g].is_evictable
        /\ Tracked(replacer) \subseteq Tracked(replacer')
        /\ Cardinality({g \in DOMAIN replacer.node_store :
                          replacer'.node_store[g] # replacer.node_store[g]}) <= 1]_vars

\* C40: every RecordAccess call that passes its frame-id check returns: no call
\* asks for the replacer's latch_ while it holds it, also when the frame is not yet
\* tracked and Size() equals num_frames
C40_RecordAccessReturns == ~lru_hung

\* the buffer pool after a FlushPage of some page or a FlushAllPages
FlushedPools(b) ==
  {IF bpm_impl = "main" THEN FlushAllPages(b) ELSE P1FlushAllPages(b)}
    \cup {(IF bpm_impl = "main" THEN FlushPage(b, p) ELSE P1FlushPage(b, p)).b : p \in BpmPageIds}

\* C34: while a page stays in its frame, a dirty flag that is set is cleared by no
\* call other than FlushPage and FlushAllPages: a FetchPage hit and an
\* UnpinPage(p, false) leave it set (an eviction ends the residency)
C34_DirtyFlagStaysSetWithinResidency ==
  [][\A f \in FrameIds :
       (/\ bpm.pages_[f].page_id # INVALID_PAGE_ID
        /\ bpm.pages_[f].is_dirty
        /\ bpm'.pages_[f].page_id = bpm.pages_[f].page_id
        /\ ~bpm'.pages_[f].is_dirty)
       => bpm' \in FlushedPools(bpm)]_vars

\* a dirty page that an UnpinPage has just released for the last time and that is
\* still in its frame
C34_Witness ==
  /\ bpm_impl = "main"
  /\ bpm_out.op = "unpin"
  /\ bpm_out.ok
  /\ \E f \in FrameIds :
       /\ bpm.pages_[f].page_id = bpm_out.page_id
       /\ bpm.pages_[f].is_dirty
       /\ bpm.pages_[f].pin_count = 0
       /\ shadow[bpm_out.page_id] # NoData

\* C35: the read descent of GetValue never holds more than two tree-page read
\* latches at a time, whatever the height of the tree: the guards FindLeafRead has
\* in Context::read_set_ when it reaches the leaf are at most two
C35_ReadDescentHoldsAtMostTwoLatches ==
  \A k \in Keys : Len(FindLeafRead(pages, root_page_id, k).read_set) <= 2

\* the pages on the way of Insert(key) from page pid that are split when a page is
\* split exactly if it is a leaf whose size reaches max_size with the new entry, or
\* an internal page that is at max_size when its child hands a separator up:
\* <<pages split, whether page pid is split>>
RECURSIVE SplitsOnPath(_, _, _)
SplitsOnPath(ps, pid, key) ==
  IF IsLeafPage(ps[pid])
  THEN IF GetSize(ps[pid]) + 1 = GetMaxSize(ps[pid]) THEN <<1, TRUE>> ELSE <<0, FALSE>>
  ELSE LET c == SplitsOnPath(ps, ValueAt(ps[pid], ChildIndex(ps[pid], 1, GetSize(ps[pid]) - 1, 0, key)), key)
       IN IF c[2] /\ GetSize(ps[pid]) = GetMaxSize(ps[pid]) THEN <<c[1] + 1, TRUE>> ELSE <<c[1], FALSE>>

C37_AllocatedPagesAreReachable ==
  \A q \in PageIds : q < next_page_id => q \in AllTreePages

\* C38: after any sequence of Insert and Remove calls no page of the tree holds more
\* than max_size entries; a leaf that a merge filled to leaf_max_size is split by
\* the next Insert into it
C38_NoPageExceedsMaxSize ==
  \A q \in AllTreePages : GetSize(pages[q]) <= GetMaxSize(pages[q])

\* C39: after every completed Insert or Remove every entry (k_i, c_i) of every
\* internal page, the entry at index 0 included, has k_i equal to the key in slot 0
\* of child c_i, and no child page id is in more than one entry
C39_EntryKeyIsFirstKeyOfChild ==
  \A q \in AllTreePages :
    ~IsLeafPage(pages[q]) =>
      /\ \A i \in 0..(GetSize(pages[q]) - 1) :
           KeyAt(pages[q], i) = KeyAt(pages[ValueAt(pages[q], i)], 0)
      /\ \A i, j \in 0..(GetSize(pages[q]) - 1) :
           ValueAt(pages[q], i) = ValueAt(pages[q], j) => i = j

\* C39, its case: a Remove has returned on a tree whose root is an internal page
\* with three children; the entry at index 0 carries a stored key other than 1
C39_Witness ==
  /\ last.op = "remove"
  /\ ~IsLeafPage(pages[root_page_id])
  /\ GetSize(pages[root_page_id]) = 3
  /\ KeyAt(pages[root_page_id], 0) > 1
  /\ ref[KeyAt(pages[root_page_id], 0)] # NoValue

====
